---------------------------- MODULE Spec2Model ----------------------------
(***************************************************************************)
(* A model of the action scheduler of aicore (src/src/action.cpp,          *)
(* src/include/aicore/action.h) driven the way the action demo drives it   *)
(* (src/src/demos/c05_action/action_demo.cpp).                             *)
(*                                                                         *)
(* Actions are heap objects linked through their `next` field.  The heap   *)
(* is a function from the addresses of the live objects to their fields;   *)
(* `delete` removes an address from its domain, so a read through a        *)
(* dangling pointer is an evaluation error and never goes unnoticed.       *)
(* The manager's two lists are the pointers actionQueue and active, and    *)
(* every loop of the source is a recursive operator over those pointers.   *)
(*                                                                         *)
(* Priorities are `real` in the source; they are only ever compared with   *)
(* < and >, so they are modelled by small naturals.                        *)
(*                                                                         *)
(* The second half models the steering pipeline (src/src/steerpipe.cpp,    *)
(* src/include/aicore/steerpipe.h): the Goal record with its four          *)
(* channels, and the SteeringPipe with its component lists, its actuator   *)
(* and its Path.  The components are virtual in the source; here every     *)
(* component object carries the answers it gives, chosen when it is        *)
(* created.  Channel values and violation values are small integers.       *)
(***************************************************************************)
EXTENDS Integers, Sequences, FiniteSets

\* ------------------------------------------------------------------ bounds
\* Number of scheduleAction calls in a behaviour.
MaxActions == 3
\* A DemoAction needs between 1 and MaxActCount act() calls to complete.
MaxActCount == 2
\* A scheduled ActionSequence has between 1 and MaxSubs leaf sub-actions.
MaxSubs == 2

\* An AvoidSpheresConstraint has at most MaxObstacles obstacles.
MaxObstacles == 2

\* The first state of a StateMachine has at most MaxTransitions transitions.
MaxTransitions == 2

\* The null pointer.
NULL == 0

\* The priorities the demo gives its actions (action_demo.cpp, commands
\* '1', '3' and '4').
Priorities == {0, 2, 6}

\* The lifetimes of the leaf actions of Spec: a one-shot action and one that
\* is still running after its second tick.
Lifetimes == {1, 3}

\* Addresses.  The i-th scheduled action lives at address i; the j-th
\* sub-action of the compound at address t lives at SubId(t, j).
SubId(t, j) == MaxActions + (t - 1) * MaxSubs + j

VARIABLES
    heap,            \* the live Action objects: address -> fields
    actionQueue,     \* ActionManager::actionQueue (head pointer)
    active,          \* ActionManager::active (head pointer)
    activePriority,  \* ActionManager::activePriority
    pc,              \* "idle" between calls, or the function a call is stuck in
    freed,           \* addresses that have been deleted
    scheduled,       \* number of scheduleAction calls made so far
    last,            \* history: the last call and the state it started from
    actuator,        \* SteeringPipe::actuator
    targeters,       \* SteeringPipe::targeters (the Targeter objects in order)
    decomposers,     \* SteeringPipe::decomposers
    constraints,     \* SteeringPipe::constraints (the Constraint objects)
    constraintSteps, \* SteeringPipe::constraintSteps
    fallback,        \* SteeringPipe::fallback
    path,            \* SteeringPipe::path (a pointer)
    paths,           \* the live Path objects: address -> fields
    registered,      \* the components whose pipe pointer is this pipe
    output,          \* the caller's SteeringOutput
    call,            \* history: what the last pipeline call did
    goals,           \* a pair of Goal objects: the receiver and the argument
    avoid,           \* an AvoidSpheresConstraint and the call made on it
    query,           \* the last question asked of an action, and its answer
    sm               \* a StateMachine and the last update() made on it

managerVars ==
    <<heap, actionQueue, active, activePriority, freed, scheduled, last>>

pipeVars ==
    <<actuator, targeters, decomposers, constraints, constraintSteps,
      fallback, path, paths, registered, output, call>>

vars == <<managerVars, pc, pipeVars, goals, avoid, query, sm>>

\* ------------------------------------------------------------ the objects

\* A leaf action: a class derived from Action that overrides the virtual
\* functions.  It completes when actCount has counted down to zero, answers
\* canInterrupt() with its interrupt flag and canDoBoth(other) with its both
\* flag, whatever the other action is (so for a pair of actions all four
\* combinations of answers occur).  total, acted and ticks are history
\* fields: the initial actCount, the number of act() calls received, and the
\* number of execute() calls during which the action was in the active list.
Leaf(actCount, priority, interrupt, both) ==
    [kind |-> "leaf", priority |-> priority, next |-> NULL,
     interrupt |-> interrupt, both |-> both, actCount |-> actCount,
     subActions |-> NULL, total |-> actCount, acted |-> 0, ticks |-> 0]

\* The demo's DemoAction overrides act, isComplete and canInterrupt and
\* inherits canDoBoth, which answers false.
DemoAction(actCount, priority, interrupt) ==
    Leaf(actCount, priority, interrupt, FALSE)

\* An ActionSequence as built by the demo: `new ActionSequence` initialises
\* neither priority nor next, so the priority is whatever the caller passes
\* here (the action draws it from Priorities).  For a sequence the history
\* field total is the number of sub-actions it was built with.
ActionSequence(priority, subActions, count) ==
    [kind |-> "seq", priority |-> priority, next |-> NULL,
     interrupt |-> FALSE, both |-> FALSE, actCount |-> 0,
     subActions |-> subActions, total |-> count, acted |-> 0, ticks |-> 0]

\* An ActionCombination: a compound whose sub-actions run together.  Like
\* the sequence it has no constructor of its own, so the priority is
\* whatever the caller passes here.  total is the number of sub-actions it
\* was built with.
ActionCombination(priority, subActions, count) ==
    [kind |-> "comb", priority |-> priority, next |-> NULL,
     interrupt |-> FALSE, both |-> FALSE, actCount |-> 0,
     subActions |-> subActions, total |-> count, acted |-> 0, ticks |-> 0]

\* The kinds of the classes derived from ActionCompound.
ActionCompound == {"seq", "comb"}

\* The machine state handed from statement to statement of a call.
Machine ==
    [heap |-> heap, actionQueue |-> actionQueue, active |-> active,
     activePriority |-> activePriority, pc |-> "idle", freed |-> freed,
     interrupter |-> NULL, completed |-> {}, deleted |-> <<>>, ran |-> <<>>,
     acts |-> <<>>]

\* `*slot = v` for a slot of type Action**: the manager's actionQueue or
\* active field, or the next field of the object at slot[2].
Store(m, slot, v) ==
    IF slot[1] = "actionQueue" THEN [m EXCEPT !.actionQueue = v]
    ELSE IF slot[1] = "active" THEN [m EXCEPT !.active = v]
    ELSE [m EXCEPT !.heap[slot[2]].next = v]

\* `delete a`: the node alone is released; nothing it points to is touched.
\* (History: deleted keeps the fields the object had when it was released.)
delete(m, a) ==
    [m EXCEPT !.heap = [x \in (DOMAIN m.heap) \ {a} |-> m.heap[x]],
              !.freed = m.freed \cup {a},
              !.deleted = [x \in (DOMAIN m.deleted) \cup {a} |->
                             IF x = a THEN m.heap[a] ELSE m.deleted[x]]]

\* The list starting at pointer a, as the sequence of its addresses.  The
\* walk stops after n nodes and at a pointer to a deleted object, so a cycle
\* or a dangling pointer shows up in the result instead of looping.
RECURSIVE Walk(_, _, _)
Walk(h, a, n) ==
    IF a = NULL \/ n = 0 THEN <<>>
    ELSE IF a \notin DOMAIN h THEN <<a>>
    ELSE <<a>> \o Walk(h, h[a].next, n - 1)

List(h, a) == Walk(h, a, MaxActions + MaxActions * MaxSubs + 1)

Range(s) == {s[i] : i \in DOMAIN s}


\* ------------------------------------------------- the virtual functions

\* canInterrupt(): DemoAction returns its flag; a sequence asks its head
\* sub-action and answers false when it has none; a combination walks its
\* sub-actions and answers true as soon as one of them does.
RECURSIVE canInterrupt(_, _)
RECURSIVE ActionCombinationCanInterrupt(_, _)
ActionCombinationCanInterrupt(h, nxt) ==
    IF nxt = NULL THEN FALSE
    ELSE IF canInterrupt(h, nxt) THEN TRUE
    ELSE ActionCombinationCanInterrupt(h, h[nxt].next)

canInterrupt(h, a) ==
    IF h[a].kind = "seq"
    THEN IF h[a].subActions # NULL
         THEN canInterrupt(h, h[a].subActions)
         ELSE FALSE
    ELSE IF h[a].kind = "comb"
    THEN ActionCombinationCanInterrupt(h, h[a].subActions)
    ELSE h[a].interrupt

\* canDoBoth(other): a leaf gives its own answer; a compound walks its
\* sub-actions and answers false as soon as one of them does.
RECURSIVE canDoBothFrom(_, _, _)
canDoBothFrom(h, nxt, other) ==
    IF nxt = NULL THEN TRUE
    ELSE IF ~(IF h[nxt].kind \in ActionCompound
              THEN canDoBothFrom(h, h[nxt].subActions, other)
              ELSE h[nxt].both)
         THEN FALSE
         ELSE canDoBothFrom(h, h[nxt].next, other)

\* (canDoBoth of a compound answered by its first sub-action alone.)
canDoBothHead(h, a, other) ==
    IF h[a].kind \in ActionCompound
    THEN IF h[a].subActions = NULL THEN TRUE
         ELSE h[h[a].subActions].both
    ELSE h[a].both

canDoBoth(h, a, other) ==
    IF h[a].kind \in ActionCompound
    THEN canDoBothFrom(h, h[a].subActions, other)
    ELSE h[a].both

\* ActionCombination::isComplete, the walk over the sub-actions from nxt
\* on: false as soon as one of them is not complete.
RECURSIVE ActionCombinationIsComplete(_, _)
ActionCombinationIsComplete(h, nxt) ==
    IF nxt = NULL THEN TRUE
    ELSE IF ~(IF h[nxt].kind = "seq" THEN h[nxt].subActions = NULL
              ELSE IF h[nxt].kind = "comb"
              THEN ActionCombinationIsComplete(h, h[nxt].subActions)
              ELSE h[nxt].actCount <= 0)
         THEN FALSE
         ELSE ActionCombinationIsComplete(h, h[nxt].next)

\* (isComplete with the leaf's test off by one.)
isCompleteLate(h, a) ==
    IF h[a].kind = "seq"
    THEN h[a].subActions = NULL
    ELSE IF h[a].kind = "comb"
    THEN ActionCombinationIsComplete(h, h[a].subActions)
    ELSE h[a].actCount < 0

\* isComplete(): a leaf is done when its counter is used up, a sequence
\* when its sub-action list is empty, a combination when all its
\* sub-actions are done.
isComplete(h, a) ==
    IF h[a].kind = "seq"
    THEN h[a].subActions = NULL
    ELSE IF h[a].kind = "comb"
    THEN ActionCombinationIsComplete(h, h[a].subActions)
    ELSE h[a].actCount <= 0

\* DemoAction::act(): count down (and print, recorded in acted and in the
\* history of the call, acts).
DemoActionAct(m, a) ==
    [m EXCEPT !.heap[a].actCount = @ - 1, !.heap[a].acted = @ + 1,
              !.acts = Append(@, a)]

\* ActionSequence::act(): run the head sub-action and, if that completed
\* it, unlink it and delete that node.
RECURSIVE act(_, _)
\* (The same with the whole list dropped once the head is done.)
ActionSequenceActDropsRest(m, a) ==
    IF m.heap[a].subActions = NULL THEN m
    ELSE LET temp == m.heap[a].subActions
             m1 == act(m, temp)
         IN IF isComplete(m1.heap, temp)
            THEN delete([m1 EXCEPT !.heap[a].subActions = NULL,
                                   !.heap[a].acted = @ + 1],
                        temp)
            ELSE [m1 EXCEPT !.heap[a].acted = @ + 1]

ActionSequenceAct(m, a) ==
    IF m.heap[a].subActions = NULL THEN m
    ELSE LET temp == m.heap[a].subActions
             m1 == act(m, temp)
         IN IF isComplete(m1.heap, temp)
            THEN delete([m1 EXCEPT !.heap[a].subActions = m1.heap[temp].next,
                                   !.heap[a].acted = @ + 1],
                        temp)
            ELSE [m1 EXCEPT !.heap[a].acted = @ + 1]

\* (A combination that runs its first sub-action only, complete or not.)
ActionCombinationActHead(m, a) ==
    IF m.heap[a].subActions = NULL
    THEN [m EXCEPT !.heap[a].acted = @ + 1]
    ELSE [act(m, m.heap[a].subActions) EXCEPT !.heap[a].acted = @ + 1]

\* ActionCombination::act(): every sub-action that is not complete acts,
\* in list order; none is unlinked or deleted.
RECURSIVE ActionCombinationActLoop(_, _)
ActionCombinationActLoop(m, nxt) ==
    IF nxt = NULL THEN m
    ELSE ActionCombinationActLoop(
             IF ~isComplete(m.heap, nxt) THEN act(m, nxt) ELSE m,
             m.heap[nxt].next)

ActionCombinationAct(m, a) ==
    [ActionCombinationActLoop(m, m.heap[a].subActions)
        EXCEPT !.heap[a].acted = @ + 1]

act(m, a) ==
    IF m.heap[a].kind = "seq" THEN ActionSequenceAct(m, a)
    ELSE IF m.heap[a].kind = "comb" THEN ActionCombinationAct(m, a)
    ELSE DemoActionAct(m, a)

\* deleteList(): a compound first deletes its sub-action list
\* (ActionCompound::deleteList), then every action deletes the rest of the
\* list it heads and finally itself (Action::deleteList).
RECURSIVE deleteList(_, _)
deleteList(m, a) ==
    LET m1 == IF m.heap[a].kind \in ActionCompound
                 /\ m.heap[a].subActions # NULL
              THEN deleteList(m, m.heap[a].subActions)
              ELSE m
        m2 == IF m1.heap[a].next # NULL
              THEN deleteList(m1, m1.heap[a].next)
              ELSE m1
    IN delete(m2, a)

\* --------------------------------------------------------- ActionManager

\* The search loop of scheduleAction: walk the queue until an action of
\* strictly lower priority is found.  The result is <<previous, next>>.
RECURSIVE scheduleActionFind(_, _, _, _)
scheduleActionFind(m, newAction, previous, nxt) ==
    IF nxt = NULL THEN <<previous, nxt>>
    ELSE IF m.heap[newAction].priority > m.heap[nxt].priority
         THEN <<previous, nxt>>
         ELSE scheduleActionFind(m, newAction, <<"next", nxt>>, m.heap[nxt].next)

\* (scheduleAction with the search loop forgotten: the new action becomes
\* the head of the queue.)
scheduleActionAtHead(m, newAction) ==
    LET m1 == Store(m, <<"actionQueue", NULL>>, newAction)
    IN [m1 EXCEPT !.heap[newAction].next = m.actionQueue]

\* (scheduleAction with the >= that its comment speaks of: the new action
\* goes before the queued actions of its own priority.)
RECURSIVE scheduleActionFindGE(_, _, _, _)
scheduleActionFindGE(m, newAction, previous, nxt) ==
    IF nxt = NULL THEN <<previous, nxt>>
    ELSE IF m.heap[newAction].priority >= m.heap[nxt].priority
         THEN <<previous, nxt>>
         ELSE scheduleActionFindGE(m, newAction, <<"next", nxt>>,
                                   m.heap[nxt].next)

scheduleActionGE(m, newAction) ==
    LET at == scheduleActionFindGE(m, newAction, <<"actionQueue", NULL>>,
                                   m.actionQueue)
        m1 == Store(m, at[1], newAction)
    IN [m1 EXCEPT !.heap[newAction].next = at[2]]

scheduleAction(m, newAction) ==
    LET at == scheduleActionFind(m, newAction, <<"actionQueue", NULL>>,
                                 m.actionQueue)
        m1 == Store(m, at[1], newAction)
    IN [m1 EXCEPT !.heap[newAction].next = at[2]]

\* The body of checkInterrupts for a queued action nxt that can interrupt:
\* the active list is deleted, nxt becomes the active list and is taken out
\* of the queue.
\* (The same with the queue not rewired around the interrupter.)
checkInterruptsReplaceLinked(m, previous, nxt) ==
    LET m1 == IF m.active # NULL THEN deleteList(m, m.active) ELSE m
        m2 == [m1 EXCEPT !.active = nxt,
                         !.activePriority = m1.heap[nxt].priority,
                         !.interrupter = nxt]
    IN [m2 EXCEPT !.heap[nxt].next = NULL]

\* (The same with the head of the active list deleted as a single node.)
checkInterruptsReplaceNode(m, previous, nxt) ==
    LET m1 == IF m.active # NULL THEN delete(m, m.active) ELSE m
        m2 == [m1 EXCEPT !.active = nxt,
                         !.activePriority = m1.heap[nxt].priority,
                         !.interrupter = nxt]
        m3 == Store(m2, previous, m2.heap[nxt].next)
    IN [m3 EXCEPT !.heap[nxt].next = NULL]

checkInterruptsReplace(m, previous, nxt) ==
    LET m1 == IF m.active # NULL THEN deleteList(m, m.active) ELSE m
        m2 == [m1 EXCEPT !.active = nxt,
                         !.activePriority = m1.heap[nxt].priority,
                         !.interrupter = nxt]
        m3 == Store(m2, previous, m2.heap[nxt].next)
    IN [m3 EXCEPT !.heap[nxt].next = NULL]

\* The loop of checkInterrupts.
RECURSIVE checkInterruptsLoop(_, _, _)
checkInterruptsLoop(m, previous, nxt) ==
    IF nxt = NULL THEN m
    ELSE IF m.heap[nxt].priority < m.activePriority THEN m
    ELSE IF canInterrupt(m.heap, nxt)
         THEN checkInterruptsReplace(m, previous, nxt)
         ELSE checkInterruptsLoop(m, <<"next", nxt>>, m.heap[nxt].next)

\* (checkInterrupts with the canInterrupt() question forgotten: the first
\* queued action that reaches the active priority interrupts.)
checkInterruptsUnasked(m) ==
    IF m.actionQueue = NULL THEN m
    ELSE IF m.heap[m.actionQueue].priority < m.activePriority THEN m
    ELSE checkInterruptsReplace(m, <<"actionQueue", NULL>>, m.actionQueue)

\* (checkInterrupts with a reset added: the active priority falls back to
\* zero when the call starts with nothing active.)
checkInterruptsResets(m) ==
    checkInterruptsLoop(
        [m EXCEPT !.activePriority = IF m.active = NULL THEN 0 ELSE @],
        <<"actionQueue", NULL>>, m.actionQueue)

\* (checkInterrupts starting its scan at the second queued action.)
checkInterruptsSkipsHead(m) ==
    IF m.actionQueue = NULL THEN m
    ELSE checkInterruptsLoop(m, <<"next", m.actionQueue>>,
                             m.heap[m.actionQueue].next)

checkInterrupts(m) ==
    checkInterruptsLoop(m, <<"actionQueue", NULL>>, m.actionQueue)

\* The inner loop of addAllToActive for the queued action nxt.  inActive
\* starts at the head of the active list and the loop body never advances
\* it: an incompatible head leaves through the goto, an empty active list
\* falls through, and a head that is compatible in both directions is asked
\* the same two questions again without end.
\* (The same loop with the second question forgotten.)
addAllToActiveInnerOneWay(m, inActive, nxt) ==
    IF inActive = NULL THEN "compatible"
    ELSE IF ~canDoBoth(m.heap, inActive, nxt)
         THEN "nextInQueue"
         ELSE "loops"

addAllToActiveInner(m, inActive, nxt) ==
    IF inActive = NULL THEN "compatible"
    ELSE IF ~canDoBoth(m.heap, inActive, nxt) \/ ~canDoBoth(m.heap, nxt, inActive)
         THEN "nextInQueue"
         ELSE "loops"

\* The outer loop of addAllToActive.  After the move `next = next->next`
\* reads the next field that was just set to the old head of active.
RECURSIVE addAllToActiveLoop(_, _, _)
addAllToActiveLoop(m, previous, nxt) ==
    IF nxt = NULL THEN m
    ELSE LET answer == addAllToActiveInner(m, m.active, nxt)
         IN IF answer = "loops" THEN [m EXCEPT !.pc = "addAllToActive"]
            ELSE IF answer = "nextInQueue"
            THEN addAllToActiveLoop(m, <<"next", nxt>>, m.heap[nxt].next)
            ELSE LET m1 == Store(m, previous, m.heap[nxt].next)
                     m2 == [m1 EXCEPT !.heap[nxt].next = m1.active]
                     m3 == [m2 EXCEPT !.active = nxt]
                 IN addAllToActiveLoop(m3, previous, m3.heap[nxt].next)

\* (addAllToActive leaving the queue as it is.)
addAllToActiveIdle(m) == m

addAllToActive(m) ==
    addAllToActiveLoop(m, <<"actionQueue", NULL>>, m.actionQueue)

\* The loop of runActive.
RECURSIVE runActiveLoop(_, _, _)
runActiveLoop(m, previous, nxt) ==
    IF nxt = NULL THEN m
    ELSE LET m1 == act(m, nxt)
         IN IF isComplete(m1.heap, nxt)
            THEN LET m2 == Store(m1, previous, m1.heap[nxt].next)
                     temp == nxt
                     nxt2 == m2.heap[nxt].next
                     m3 == delete(m2, temp)
                 IN runActiveLoop([m3 EXCEPT !.completed = @ \cup {temp}],
                                  previous, nxt2)
            ELSE runActiveLoop(m1, <<"next", nxt>>, m1.heap[nxt].next)

\* (runActive running the head of the active list and leaving it there,
\* complete or not.)
runActiveKeeps(m) ==
    IF m.active = NULL THEN m ELSE act(m, m.active)

runActive(m) ==
    runActiveLoop(m, <<"active", NULL>>, m.active)

\* History only: every action that is in the active list when runActive
\* starts has spent one more execute() call there (and `ran` is that list).
RECURSIVE CountTick(_, _)
CountTick(h, s) ==
    IF s = <<>> THEN h
    ELSE CountTick([h EXCEPT ![Head(s)].ticks = @ + 1], Tail(s))

\* execute(): the three phases in order.  A phase that does not return
\* leaves the call stuck in it (pc) and the later phases do not run.
execute(m) ==
    LET m1 == checkInterrupts(m)
        m2 == addAllToActive(m1)
    IN IF m2.pc # "idle" THEN m2
       ELSE runActive([m2 EXCEPT !.heap = CountTick(m2.heap,
                                                    List(m2.heap, m2.active)),
                                 !.ran = List(m2.heap, m2.active)])

\* ---------------------------------------------------------------- goals

\* The values a goal channel takes (a position, an orientation, ...).
GoalValues == {1, 2}

\* Goal::Goal(): clear() resets the four flags.  The Vector3 members are
\* zeroed by their constructor; orientation and rotation are left
\* indeterminate, so they are whatever the caller passes here.
Goal(orientation, rotation) ==
    [position |-> 0, positionSet |-> FALSE,
     orientation |-> orientation, orientationSet |-> FALSE,
     velocity |-> 0, velocitySet |-> FALSE,
     rotation |-> rotation, rotationSet |-> FALSE]

\* Goal::clear
clear(this) ==
    [this EXCEPT !.positionSet = FALSE, !.orientationSet = FALSE,
                 !.velocitySet = FALSE, !.rotationSet = FALSE]

\* (canMergeGoals looking at the position channel alone.)
canMergeGoalsPositionOnly(this, goal) ==
    ~(this.positionSet /\ goal.positionSet)

\* Goal::canMergeGoals
canMergeGoals(this, goal) ==
    ~(\/ this.positionSet /\ goal.positionSet
      \/ this.orientationSet /\ goal.orientationSet
      \/ this.velocitySet /\ goal.velocitySet
      \/ this.rotationSet /\ goal.rotationSet)

\* (Goal::updateGoal copying all four channels whatever their flags.)
updateGoalOverwrites(this, goal) ==
    [ok |-> canMergeGoals(this, goal),
     goal |-> [position |-> goal.position,
               positionSet |-> this.positionSet \/ goal.positionSet,
               orientation |-> goal.orientation,
               orientationSet |-> this.orientationSet \/ goal.orientationSet,
               velocity |-> goal.velocity,
               velocitySet |-> this.velocitySet \/ goal.velocitySet,
               rotation |-> goal.rotation,
               rotationSet |-> this.rotationSet \/ goal.rotationSet]]

\* Goal::updateGoal: ok is the value of the asserted condition, goal is the
\* receiver after the four conditional copies.
updateGoal(this, goal) ==
    LET g1 == IF goal.positionSet
              THEN [this EXCEPT !.position = goal.position,
                                !.positionSet = TRUE]
              ELSE this
        g2 == IF goal.orientationSet
              THEN [g1 EXCEPT !.orientation = goal.orientation,
                              !.orientationSet = TRUE]
              ELSE g1
        g3 == IF goal.velocitySet
              THEN [g2 EXCEPT !.velocity = goal.velocity,
                              !.velocitySet = TRUE]
              ELSE g2
        g4 == IF goal.rotationSet
              THEN [g3 EXCEPT !.rotation = goal.rotation,
                              !.rotationSet = TRUE]
              ELSE g3
    IN [ok |-> canMergeGoals(this, goal), goal |-> g4]

\* ------------------------------------------------------------- the pipe

\* The only actuator object there is, and the value of a pointer that was
\* never assigned: it points to no object.
Actuators == {1}
Wild == -1

\* REAL_MAX, the answer of willViolate that means "no violation", and the
\* value Path::getMaxPriority gives for every path: the distance from the
\* character to the goal.  Violations are the answers a constraint gives:
\* the character's own place, two places on the way to the goal, and no
\* violation.
REAL_MAX == 9
Distance == 3
Violations == {0, 1, 2, REAL_MAX}

\* A FixedGoalTargeter: getGoal returns its goal field.
FixedGoalTargeter(goal) == [goal |-> goal]

getGoal(targeter) == targeter.goal

\* A Decomposer.  The two classes of the model: "aim" moves the position
\* channel ten further (and sets it), "turn" sets the orientation channel
\* to the position the goal has.  Neither commutes with the other.
Decomposer(kind) == [kind |-> kind]

decomposeGoal(decomposer, goal) ==
    IF decomposer.kind = "aim"
    THEN [goal EXCEPT !.position = 10 + (IF goal.positionSet THEN @ ELSE 0),
                      !.positionSet = TRUE]
    ELSE [goal EXCEPT !.orientation = IF goal.positionSet
                                      THEN goal.position ELSE 0,
                      !.orientationSet = TRUE]

\* A Constraint.  The path changes from one iteration of the negotiation to
\* the next, and so may the answer: the object answers `first` for the path
\* of the first iteration of a call and `later` for the paths to suggested
\* goals.  It suggests a goal with the position channel alone, at a place
\* that tells the constraints apart.  The class has no constructor, so
\* suggestionUsed starts indeterminate: it is whatever the caller passes
\* here, until the pipe writes the flag.
Constraint(first, later, place, suggestionUsed) ==
    [first |-> first, later |-> later,
     suggestion |-> [Goal(0, 0) EXCEPT !.position = place,
                                       !.positionSet = TRUE],
     suggestionUsed |-> suggestionUsed]

willViolate(constraint, i, maxPriority) ==
    IF i = 0 THEN constraint.first ELSE constraint.later

suggest(constraint) == constraint.suggestion

\* Path::getMaxPriority
getMaxPriority(p) == Distance

\* The pipe as one record, for the operators below.
Pipe ==
    [actuator |-> actuator, targeters |-> targeters,
     decomposers |-> decomposers, constraints |-> constraints,
     constraintSteps |-> constraintSteps, fallback |-> fallback,
     path |-> path, paths |-> paths, registered |-> registered,
     output |-> output, pc |-> pc, call |-> call]

\* What `call` holds when a call starts: the state it started from and
\* nothing done yet.
NoPipeCall(op, p) ==
    [op |-> op, actuator |-> p.actuator, path |-> p.path,
     constraintSteps |-> p.constraintSteps, fallback |-> p.fallback,
     suggestionUsed |-> [c \in DOMAIN p.constraints |->
                            p.constraints[c].suggestionUsed],
     results |-> <<>>, merged |-> <<>>, asserted |-> TRUE,
     goal |-> Goal(0, 0), decomposed |-> Goal(0, 0),
     createPathObject |-> 0, getPath |-> 0, willViolate |-> 0, suggest |-> 0,
     getSteering |-> 0, fallbackGetSteering |-> 0,
     iterations |-> <<>>, exit |-> "none",
     decomposeGoal |-> <<>>, pathGoals |-> <<>>]

\* The lowest address that holds no Path object.
NewPath(h) == CHOOSE a \in 1..(Cardinality(DOMAIN h) + 1) : a \notin DOMAIN h

\* Actuator::createPathObject (as BasicActuator's: `new Path`).
createPathObject(p) ==
    LET a == NewPath(p.paths)
    IN [p EXCEPT !.path = a,
                 !.paths = [x \in (DOMAIN @) \cup {a} |->
                               IF x = a THEN [goal |-> Goal(0, 0)] ELSE @[x]],
                 !.call.createPathObject = @ + 1]

\* `delete path`
deletePath(p) ==
    [p EXCEPT !.paths = [x \in (DOMAIN @) \ {p.path} |-> @[x]]]

\* (getPath counting the call and leaving the path as it was.)
getPathStale(p, goal) == [p EXCEPT !.call.getPath = @ + 1]

\* Actuator::getPath (as BasicActuator's: the path is to the goal).
\* (History: pathGoals keeps the goals of the calls.)
getPath(p, goal) ==
    [p EXCEPT !.paths[p.path].goal = goal, !.call.getPath = @ + 1,
              !.call.pathGoals = Append(@, goal)]

\* Actuator::getSteering (as BasicActuator's: a function of the path).
actuatorGetSteering(p) ==
    [p EXCEPT !.output = [by |-> "actuator", goal |-> p.paths[p.path].goal],
              !.call.getSteering = @ + 1]

\* (A fallback that is called and leaves the output alone.)
fallbackGetSteeringIdle(p) == [p EXCEPT !.call.fallbackGetSteering = @ + 1]

\* SteeringBehaviour::getSteering of the fallback.
fallbackGetSteering(p) ==
    [p EXCEPT !.output = [by |-> "fallback", goal |-> Goal(0, 0)],
              !.call.fallbackGetSteering = @ + 1]

\* A call that goes through a pointer to no actuator faults: the virtual
\* call reads the function table of an object that is not there.
fault(p) == [p EXCEPT !.pc = "crashed", !.call.exit = "crashed"]

\* The locals of getSteering around the pipe: the goal, the constraint that
\* was violated first (unassigned when the call starts) and, for the loop
\* over the constraints, the shortest violation and the answers given,
\* each with the number of getPath calls made when it was given.
Frame(p, goal) ==
    [pipe |-> p, goal |-> goal, violatingConstraint |-> Wild,
     shortestViolation |-> 0, answers |-> <<>>, asked |-> <<>>]

\* getSteering, the loop over the targeters.
RECURSIVE targetersLoop(_, _)
targetersLoop(f, ti) ==
    IF ti > Len(f.pipe.targeters) THEN f
    ELSE LET targeterResult == getGoal(f.pipe.targeters[ti])
             f1 == [f EXCEPT !.pipe.call.results = Append(@, targeterResult)]
         IN IF canMergeGoals(f1.goal, targeterResult)
            THEN LET r == updateGoal(f1.goal, targeterResult)
                 IN targetersLoop(
                        [f1 EXCEPT !.goal = r.goal,
                                   !.pipe.call.asserted = @ /\ r.ok,
                                   !.pipe.call.merged = Append(@, TRUE)],
                        ti + 1)
            ELSE targetersLoop(
                     [f1 EXCEPT !.pipe.call.merged = Append(@, FALSE)],
                     ti + 1)

\* (A decomposer called and its result dropped.)
decomposersLoopDrops(f, di) ==
    [f EXCEPT !.pipe.call.decomposeGoal =
                  Append(@, [decomposer |-> di, goal |-> f.goal,
                             result |-> decomposeGoal(f.pipe.decomposers[di],
                                                      f.goal)])]

\* getSteering, the body of the loop over the decomposers: the goal
\* becomes what the decomposer makes of it.  (History: decomposeGoal keeps
\* the calls.)
decomposersLoopBody(f, di) ==
    [f EXCEPT !.goal = decomposeGoal(f.pipe.decomposers[di], f.goal),
              !.pipe.call.decomposeGoal =
                  Append(@, [decomposer |-> di, goal |-> f.goal,
                             result |-> decomposeGoal(f.pipe.decomposers[di],
                                                      f.goal)])]

\* getSteering, the loop over the decomposers.
RECURSIVE decomposersLoop(_, _)
decomposersLoop(f, di) ==
    IF di > Len(f.pipe.decomposers) THEN f
    ELSE decomposersLoop(decomposersLoopBody(f, di), di + 1)

\* (The loop over the constraints remembering every constraint it asked,
\* whatever it answered.)
constraintsLoopTakesAny(f, i, ci, currentViolation) ==
    IF currentViolation > 0 /\ currentViolation < f.shortestViolation
    THEN [f EXCEPT !.shortestViolation = currentViolation,
                   !.violatingConstraint = ci]
    ELSE [f EXCEPT !.violatingConstraint = ci]

\* getSteering, one constraint's answer in the loop over the constraints.
constraintsLoopTakes(f, i, ci, currentViolation) ==
    IF currentViolation > 0 /\ currentViolation < f.shortestViolation
    THEN [f EXCEPT !.shortestViolation = currentViolation,
                   !.violatingConstraint = ci]
    ELSE f

\* getSteering, the clearing of the flag in the loop over the constraints.
constraintsLoopClears(f, i, ci) ==
    IF i = 0
    THEN [f EXCEPT !.pipe.constraints[ci].suggestionUsed = FALSE]
    ELSE f

\* getSteering, the loop over the constraints in iteration i.
RECURSIVE constraintsLoop(_, _, _)
constraintsLoop(f, i, ci) ==
    IF ci > Len(f.pipe.constraints) THEN f
    ELSE LET f1 == constraintsLoopClears(f, i, ci)
             currentViolation ==
                 willViolate(f1.pipe.constraints[ci], i, f1.shortestViolation)
             f2 == [f1 EXCEPT !.pipe.call.willViolate = @ + 1,
                              !.answers = Append(@, currentViolation),
                              !.asked = Append(@, f1.pipe.call.getPath)]
         IN constraintsLoop(constraintsLoopTakes(f2, i, ci, currentViolation),
                            i, ci + 1)

\* (The end of an exhausted call forgetting the fallback.)
exhaustedSilent(p) == [p EXCEPT !.call.exit = "exhausted"]

\* (The end of an exhausted call asking the actuator as well.)
exhaustedAlsoSteers(p) ==
    LET p1 == [p EXCEPT !.call.exit = "exhausted"]
    IN actuatorGetSteering(
           IF p1.fallback # NULL THEN fallbackGetSteering(p1) ELSE p1)

\* getSteering, the end of the call when the iterations have run out.
exhausted(p) ==
    LET p1 == [p EXCEPT !.call.exit = "exhausted"]
    IN IF p1.fallback # NULL THEN fallbackGetSteering(p1) ELSE p1

\* (An iteration that merges the suggestion into the goal it had.)
iterationMerges(f, i) ==
    IF f.pipe.actuator \notin Actuators
    THEN [f EXCEPT !.pipe = fault(@)]
    ELSE LET p1 == getPath(f.pipe, f.goal)
             maxViolation == getMaxPriority(p1.paths[p1.path])
             f1 == constraintsLoop(
                       [f EXCEPT !.pipe = p1,
                                 !.shortestViolation = maxViolation,
                                 !.answers = <<>>,
                                 !.asked = <<>>],
                       i, 1)
             c == f1.violatingConstraint
         IN IF f1.shortestViolation < maxViolation
            THEN [f1 EXCEPT
                     !.goal = updateGoal(
                                  @, suggest(f1.pipe.constraints[c])).goal,
                     !.pipe.constraints[c].suggestionUsed = TRUE,
                     !.pipe.call.suggest = @ + 1,
                     !.pipe.call.iterations =
                         Append(@, [answers |-> f1.answers,
                                    asked |-> f1.asked,
                                    getPath |-> f1.pipe.call.getPath,
                                    used |-> c])]
            ELSE [f1 EXCEPT
                     !.pipe = actuatorGetSteering(
                         [@ EXCEPT
                             !.call.exit = "converged",
                             !.call.iterations =
                                 Append(@, [answers |-> f1.answers,
                                            asked |-> f1.asked,
                                            getPath |-> f1.pipe.call.getPath,
                                            used |-> 0])])]

\* getSteering, iteration i of the negotiation.
iteration(f, i) ==
    IF f.pipe.actuator \notin Actuators
    THEN [f EXCEPT !.pipe = fault(@)]
    ELSE LET p1 == getPath(f.pipe, f.goal)
             maxViolation == getMaxPriority(p1.paths[p1.path])
             f1 == constraintsLoop(
                       [f EXCEPT !.pipe = p1,
                                 !.shortestViolation = maxViolation,
                                 !.answers = <<>>,
                                 !.asked = <<>>],
                       i, 1)
             c == f1.violatingConstraint
         IN IF f1.shortestViolation < maxViolation
            THEN [f1 EXCEPT
                     !.goal = suggest(f1.pipe.constraints[c]),
                     !.pipe.constraints[c].suggestionUsed = TRUE,
                     !.pipe.call.suggest = @ + 1,
                     !.pipe.call.iterations =
                         Append(@, [answers |-> f1.answers,
                                    asked |-> f1.asked,
                                    getPath |-> f1.pipe.call.getPath,
                                    used |-> c])]
            ELSE [f1 EXCEPT
                     !.pipe = actuatorGetSteering(
                         [@ EXCEPT
                             !.call.exit = "converged",
                             !.call.iterations =
                                 Append(@, [answers |-> f1.answers,
                                            asked |-> f1.asked,
                                            getPath |-> f1.pipe.call.getPath,
                                            used |-> 0])])]

\* getSteering, the negotiation from iteration i on: it ends when an
\* iteration has left the call or when the iterations have run out.
RECURSIVE negotiate(_, _)
negotiate(f, i) ==
    IF f.pipe.call.exit = "none" /\ i < f.pipe.constraintSteps
    THEN negotiate(iteration(f, i), i + 1)
    ELSE IF f.pipe.call.exit = "none" THEN exhausted(f.pipe) ELSE f.pipe

\* (getSteering asking the actuator for a new Path object in every call.)
getSteeringCreatesAlways(p) == TRUE

\* getSteering, the test that decides whether a Path object is created.
getSteeringCreates(p) == p.path = NULL

\* SteeringPipe::getSteering.  orientation and rotation are the
\* indeterminate values of the two channels of the local goal.
getSteering(p, orientation, rotation) ==
    LET f0 == Frame([p EXCEPT !.call = NoPipeCall("getSteering", p)],
                    Goal(orientation, rotation))
        f1 == targetersLoop(f0, 1)
        f2 == decomposersLoop(f1, 1)
        f3 == [f2 EXCEPT !.pipe.call.goal = f1.goal,
                         !.pipe.call.decomposed = f2.goal]
    IN IF getSteeringCreates(f3.pipe)
       THEN IF f3.pipe.actuator \notin Actuators
            THEN fault(f3.pipe)
            ELSE negotiate([f3 EXCEPT !.pipe = createPathObject(@)], 0)
       ELSE negotiate(f3, 0)

\* The pipe after an operation of the set-up: `call` holds nothing done,
\* and the caller's SteeringOutput, a local of the caller's update, is gone.
Settled(p) ==
    [p EXCEPT !.call = NoPipeCall("setup", p),
              !.output = [by |-> "nobody", goal |-> Goal(0, 0)]]

\* SteeringPipe::setActuator
setActuator(p, a) ==
    LET p1 == [p EXCEPT !.actuator = a]
        p2 == IF p1.path # NULL THEN deletePath(p1) ELSE p1
    IN Settled([p2 EXCEPT !.path = NULL])

\* (registerComponents leaving the actuator without its pipe.)
registerComponentsSkipsActuator(p, reaches) ==
    Settled([p EXCEPT
                !.registered =
                    @ \cup {<<"targeters", ti>> : ti \in DOMAIN p.targeters}
                      \cup {<<"decomposers", di>> : di \in DOMAIN p.decomposers}
                      \cup {<<"constraints", ci>> : ci \in DOMAIN p.constraints}])

\* SteeringPipe::registerComponents.  The three loops set the pipe pointer
\* of the listed components; the last line writes through the actuator
\* pointer, which faults or hits memory that is no actuator when the
\* pointer is null or was never assigned (reaches is the outcome).
registerComponents(p, reaches) ==
    LET p1 == [p EXCEPT
                  !.registered =
                      @ \cup {<<"targeters", ti>> : ti \in DOMAIN p.targeters}
                        \cup {<<"decomposers", di>> : di \in DOMAIN p.decomposers}
                        \cup {<<"constraints", ci>> : ci \in DOMAIN p.constraints}]
    IN IF p1.actuator \in Actuators
       THEN Settled([p1 EXCEPT
                        !.registered = @ \cup {<<"actuator", p1.actuator>>}])
       ELSE IF reaches THEN Settled(p1) ELSE fault(Settled(p1))

\* ------------------------------------------------ AvoidSpheresConstraint
\* Vector3 on the ground plane: <<x, z>> with integer coordinates.
VectorMinus(a, b) == <<a[1] - b[1], a[2] - b[2]>>
VectorPlus(a, b) == <<a[1] + b[1], a[2] + b[2]>>
VectorTimes(a, value) == <<a[1] * value, a[2] * value>>
scalarProduct(a, b) == a[1] * b[1] + a[2] * b[2]
squareMagnitude(a) == scalarProduct(a, a)

\* The reals willViolate computes with are projections onto a unit vector:
\* Real(num, sq) is the number num / sqrt(sq), with sq > 0.  Arithmetic is
\* exact; the rounding of the float build is not modelled.
Real(num, sq) == [num |-> num, sq |-> sq]

\* REAL_MAX as such a number.
RealMax == Real(REAL_MAX, 1)

\* a < b, by comparing squares.
RealLess(a, b) ==
    IF a.num <= 0 /\ b.num > 0 THEN TRUE
    ELSE IF a.num > 0 /\ b.num <= 0 THEN FALSE
    ELSE IF a.num > 0 THEN a.num * a.num * b.sq < b.num * b.num * a.sq
    ELSE a.num * a.num * b.sq > b.num * b.num * a.sq

\* struct Sphere
Sphere(position, radius) == [position |-> position, radius |-> radius]

\* The position channel of a Goal whose position is a vector.
PositionGoal(positionSet, position) ==
    [positionSet |-> positionSet, position |-> position]

\* The point centre + unit(away) * radius.  unit() leaves the zero vector
\* as it is, so the point is the centre when away is the zero vector.
AvoidancePoint(centre, away, radius) ==
    [centre |-> centre, away |-> away, radius |-> radius]

\* An AvoidSpheresConstraint after construction and the assignment of its
\* public fields: the suggestion is a cleared Goal.
AvoidSpheresConstraint(obstacles, avoidMargin) ==
    [obstacles |-> obstacles, avoidMargin |-> avoidMargin,
     suggestion |-> PositionGoal(FALSE, <<0, 0>>)]

\* The check on one obstacle without the test that the closest approach is
\* ahead of the character.
AvoidSpheresConstraintWillViolateBehind(this, character, p, maxPriority, obstacle) ==
    LET direction == VectorMinus(p.goal.position, character.position)
        sq == squareMagnitude(direction)
        characterToObstacle ==
            VectorMinus(obstacle.position, character.position)
        num == scalarProduct(characterToObstacle, direction)
        radius == obstacle.radius + this.avoidMargin
    IN  IF /\ p.goal.positionSet
           /\ sq > 0
           /\ squareMagnitude(characterToObstacle) * sq - num * num
                  < radius * radius * sq
           /\ RealLess(Real(num, sq), maxPriority)
        THEN [this |-> this, result |-> Real(num, sq)]
        ELSE [this |-> this, result |-> RealMax]

\* this->willViolate(path, maxPriority, obstacle) for a registered
\* constraint whose pipe has the given character: the constraint afterwards
\* and the value returned.  With movementNormal = direction / sqrt(sq), the
\* projection of characterToObstacle is num / sqrt(sq); the collision test
\* and the vector closestPoint - obstacle.position are multiplied by sq.
AvoidSpheresConstraintWillViolateSphere(this, character, p, maxPriority, obstacle) ==
    LET direction == VectorMinus(p.goal.position, character.position)
        sq == squareMagnitude(direction)
        characterToObstacle ==
            VectorMinus(obstacle.position, character.position)
        num == scalarProduct(characterToObstacle, direction)
        radius == obstacle.radius + this.avoidMargin
        distanceToClosest == Real(num, sq)
        away == VectorPlus(
                    VectorTimes(VectorMinus(character.position,
                                            obstacle.position), sq),
                    VectorTimes(direction, num))
    IN  IF ~p.goal.positionSet THEN [this |-> this, result |-> RealMax]
        ELSE IF /\ sq > 0
                /\ squareMagnitude(characterToObstacle) * sq - num * num
                       < radius * radius * sq
                /\ num > 0
                /\ RealLess(distanceToClosest, maxPriority)
        THEN [this |-> [this EXCEPT !.suggestion =
                           PositionGoal(TRUE,
                               AvoidancePoint(obstacle.position, away,
                                              radius))],
              result |-> distanceToClosest]
        ELSE [this |-> this, result |-> RealMax]

\* (The body of the loop asking every obstacle with no lookahead limit.)
AvoidSpheresConstraintWillViolateAll(this, character, p, soi, priority) ==
    LET r == AvoidSpheresConstraintWillViolateSphere(
                 this, character, p, RealMax, this.obstacles[soi])
    IN  [this |-> r.this,
         result |-> IF RealLess(r.result, priority) THEN r.result
                                                    ELSE priority]

\* The body of the loop of willViolate(path, maxPriority) for the soi-th
\* obstacle: the constraint afterwards and the new value of priority.
AvoidSpheresConstraintWillViolateBody(this, character, p, soi, priority) ==
    LET r == AvoidSpheresConstraintWillViolateSphere(
                 this, character, p, priority, this.obstacles[soi])
    IN  [this |-> r.this,
         result |-> IF RealLess(r.result, priority) THEN r.result
                                                    ELSE priority]

\* The loop of willViolate(path, maxPriority) from the soi-th obstacle on.
RECURSIVE AvoidSpheresConstraintWillViolateLoop(_, _, _, _, _)
AvoidSpheresConstraintWillViolateLoop(this, character, p, soi, priority) ==
    IF soi > Len(this.obstacles) THEN [this |-> this, result |-> priority]
    ELSE LET r == AvoidSpheresConstraintWillViolateBody(
                      this, character, p, soi, priority)
         IN  AvoidSpheresConstraintWillViolateLoop(
                 r.this, character, p, soi + 1, r.result)

\* this->willViolate(path, maxPriority): the lookahead handed to the
\* obstacles is the running minimum, never maxPriority.
AvoidSpheresConstraintWillViolate(this, character, p, maxPriority) ==
    AvoidSpheresConstraintWillViolateLoop(this, character, p, 1, RealMax)

\* this->suggest(path)
AvoidSpheresConstraintSuggest(this, p) == this.suggestion

\* The constraint when no call on it is under study.
NoAvoid ==
    [this |-> AvoidSpheresConstraint(<<>>, 0),
     character |-> [position |-> <<0, 0>>],
     path |-> [goal |-> PositionGoal(FALSE, <<0, 0>>)],
     maxPriority |-> RealMax, result |-> RealMax,
     suggested |-> PositionGoal(FALSE, <<0, 0>>), op |-> "none"]

\* --------------------------------------------------------- StateMachine
\* A state of the machine has a list of transitions and says how many
\* actions each of getEntryActions, getActions and getExitActions makes: 0
\* is the default implementation, which returns NULL, and the count of a
\* DemoState with no text.  A transition has the value its condition
\* watches for, a target state and the number of actions it makes.
StateMachineState(entries, actions, exits, transitions) ==
    [entries |-> entries, actions |-> actions, exits |-> exits,
     transitions |-> transitions]

Transition(watch, target, actions) ==
    [watch |-> watch, target |-> target, actions |-> actions]

\* A list of n freshly made actions named after their maker; the empty
\* sequence is the NULL pointer.
getActionsFromText(maker, n) == [i \in 1 .. n |-> <<maker, i>>]

getEntryActions(machine, s) ==
    getActionsFromText(<<"entry", s>>, machine.states[s].entries)

StateGetActions(machine, s) ==
    getActionsFromText(<<"state", s>>, machine.states[s].actions)

getExitActions(machine, s) ==
    getActionsFromText(<<"exit", s>>, machine.states[s].exits)

TransitionGetActions(machine, s, t) ==
    getActionsFromText(<<"transition", s, t>>,
                       machine.states[s].transitions[t].actions)

\* isTriggered() of the t-th transition of state s: its
\* IntegerMatchCondition compares the watched integer with its target.
isTriggered(machine, s, t, option) ==
    machine.states[s].transitions[t].watch = option

getTargetState(machine, s, t) == machine.states[s].transitions[t].target

\* The search loop of update: the index of the first transition from
\* testTransition on that is triggered, 0 (no transition) when none is.
RECURSIVE updateFind(_, _, _, _)
updateFind(machine, s, testTransition, option) ==
    IF testTransition > Len(machine.states[s].transitions) THEN 0
    ELSE IF isTriggered(machine, s, testTransition, option)
         THEN testTransition
         ELSE updateFind(machine, s, testTransition + 1, option)

\* The result of a call that went through the NULL pointer: getLast()
\* reads this->next, the call does not return.
Crashed(machine, option, transition) ==
    [machine EXCEPT !.op = "crashed", !.option = option,
                    !.was = machine.currentState, !.fired = transition,
                    !.actions = <<>>]

\* update() with the watched integer equal to option.  The machine
\* afterwards; actions is the list returned.  was, option and fired are
\* history: the state the call started in, its input and the transition it
\* took (0: none).
update(machine, option) ==
    IF machine.currentState = NULL
    THEN IF machine.initialState # NULL
         THEN [machine EXCEPT
                  !.op = "update", !.option = option, !.was = NULL,
                  !.fired = 0,
                  !.currentState = machine.initialState,
                  !.actions = getEntryActions(machine, machine.initialState)]
         ELSE [machine EXCEPT
                  !.op = "update", !.option = option, !.was = NULL,
                  !.fired = 0, !.actions = <<>>]
    ELSE LET currentState == machine.currentState
             transition == updateFind(machine, currentState, 1, option)
         IN  IF transition # 0
             THEN LET nextState ==
                          getTargetState(machine, currentState, transition)
                      actions == getExitActions(machine, currentState)
                      tempList == TransitionGetActions(machine, currentState,
                                                       transition)
                  IN  IF actions = <<>> \/ tempList = <<>>
                      THEN Crashed(machine, option, transition)
                      ELSE [machine EXCEPT
                               !.op = "update", !.option = option,
                               !.was = currentState, !.fired = transition,
                               !.currentState = nextState,
                               !.actions =
                                   actions \o tempList
                                       \o StateGetActions(machine, nextState)]
             ELSE [machine EXCEPT
                      !.op = "update", !.option = option,
                      !.was = currentState, !.fired = 0,
                      !.actions = StateGetActions(machine, currentState)]

\* A machine when none is under study.
NoStateMachine ==
    [states |-> <<>>, initialState |-> NULL, currentState |-> NULL,
     actions |-> <<>>, option |-> 0, fired |-> 0, was |-> NULL,
     op |-> "none"]

\* ------------------------------------------------------------ behaviours

\* What `last` holds when the last call was not an execute().
NoCall(op) ==
    [op |-> op, actionQueue |-> <<>>, active |-> <<>>, activePriority |-> 0,
     interrupter |-> NULL, completed |-> {}, deleted |-> <<>>, ran |-> <<>>,
     acts |-> <<>>]

\* ActionManager::ActionManager()
ActionManager ==
    /\ heap = <<>>
    /\ actionQueue = NULL
    /\ active = NULL
    /\ activePriority = 0
    /\ freed = {}
    /\ scheduled = 0
    /\ last = NoCall("init")

\* The value constraintSteps is constructed with.
DefaultConstraintSteps == 100

\* A SteeringOutput nobody has written to.
NoOutput == [by |-> "nobody", goal |-> Goal(0, 0)]

\* SteeringPipe::SteeringPipe(): fallback, constraintSteps and path are
\* initialised, the lists are empty, the actuator pointer is not assigned.
SteeringPipe ==
    /\ actuator = Wild
    /\ targeters = <<>>
    /\ decomposers = <<>>
    /\ constraints = <<>>
    /\ constraintSteps = DefaultConstraintSteps
    /\ fallback = NULL
    /\ path = NULL
    /\ paths = <<>>
    /\ registered = {}
    /\ output = NoOutput
    /\ call = NoPipeCall("setup",
                         [actuator |-> Wild, path |-> NULL,
                          constraintSteps |-> DefaultConstraintSteps,
                          fallback |-> NULL, constraints |-> <<>>])

\* The pair of goals when no goal operation is under study.
NoGoals ==
    [this |-> Goal(0, 0), goal |-> Goal(0, 0), was |-> Goal(0, 0),
     op |-> "none"]

\* No question has been asked.
NoQuery == [op |-> "none", this |-> NULL, other |-> NULL, result |-> FALSE]

\* The program after the construction of its manager and its pipe.
Init ==
    /\ pc = "idle"
    /\ ActionManager
    /\ SteeringPipe
    /\ goals = NoGoals
    /\ avoid = NoAvoid
    /\ query = NoQuery
    /\ sm = NoStateMachine

Commit(m) ==
    /\ heap' = m.heap
    /\ actionQueue' = m.actionQueue
    /\ active' = m.active
    /\ activePriority' = m.activePriority
    /\ pc' = m.pc
    /\ freed' = m.freed

\* The heap after `new` has put object obj at the fresh address a.
New(h, a, obj) ==
    [x \in (DOMAIN h) \cup {a} |-> IF x = a THEN obj ELSE h[x]]

\* The caller creates a fresh leaf action of a class that overrides all the
\* virtual functions and schedules it.
ScheduleAction ==
    /\ pc = "idle"
    /\ scheduled < MaxActions
    /\ \E actCount \in Lifetimes, priority \in Priorities,
          interrupt \in BOOLEAN, both \in BOOLEAN :
          \E m \in {scheduleAction(
                      [Machine EXCEPT !.heap =
                          New(heap, scheduled + 1,
                              Leaf(actCount, priority, interrupt, both))],
                      scheduled + 1)} :
             Commit(m)
    /\ scheduled' = scheduled + 1
    /\ last' = NoCall("schedule")
    /\ UNCHANGED <<pipeVars, goals, avoid, query, sm>>

\* The priority and the interrupt flag of the demo's commands '1' and '2'
\* (priority 0, no interruption), '3' (priority 2, interrupts) and '4'
\* (priority 6, interrupts).
DemoOptions == {<<0, FALSE>>, <<2, TRUE>>, <<6, TRUE>>}

\* The demo's commands '1' to '4', for any count: the caller creates a
\* DemoAction and schedules it.
ScheduleDemoAction ==
    /\ pc = "idle"
    /\ scheduled < MaxActions
    /\ \E actCount \in 1..MaxActCount, option \in DemoOptions :
          \E m \in {scheduleAction(
                      [Machine EXCEPT !.heap =
                          New(heap, scheduled + 1,
                              DemoAction(actCount, option[1], option[2]))],
                      scheduled + 1)} :
             Commit(m)
    /\ scheduled' = scheduled + 1
    /\ last' = NoCall("schedule")
    /\ UNCHANGED <<pipeVars, goals, avoid, query, sm>>

\* The sub-action list of the demo's sequence, for k sub-actions: one-shot
\* DemoActions of priority 0 that cannot interrupt, linked in order.
RECURSIVE NewSubActions(_, _, _, _)
NewSubActions(h, a, j, k) ==
    IF j > k THEN h
    ELSE NewSubActions(
             New(h, SubId(a, j),
                 [DemoAction(1, 0, FALSE) EXCEPT
                     !.next = IF j = k THEN NULL ELSE SubId(a, j + 1)]),
             a, j + 1, k)

\* The demo's command 's', for any number k of sub-actions: the caller
\* builds a sequence and schedules it.  `new ActionSequence` leaves the
\* priority of the sequence uninitialised, so it is any value.
ScheduleSequence ==
    /\ pc = "idle"
    /\ scheduled < MaxActions
    /\ \E k \in 1..MaxSubs, priority \in Priorities :
          \E m \in {scheduleAction(
                      [Machine EXCEPT !.heap =
                          New(NewSubActions(heap, scheduled + 1, 1, k),
                              scheduled + 1,
                              ActionSequence(priority,
                                             SubId(scheduled + 1, 1), k))],
                      scheduled + 1)} :
             Commit(m)
    /\ scheduled' = scheduled + 1
    /\ last' = NoCall("schedule")
    /\ UNCHANGED <<pipeVars, goals, avoid, query, sm>>

\* What `last` holds after an execute() that ended in m.
Executed(m) ==
    [op |-> "execute",
     actionQueue |-> List(heap, actionQueue),
     active |-> List(heap, active),
     activePriority |-> activePriority,
     interrupter |-> m.interrupter,
     completed |-> m.completed,
     deleted |-> m.deleted,
     ran |-> m.ran,
     acts |-> m.acts]

\* One tick: the caller runs the manager.
Execute ==
    /\ pc = "idle"
    /\ \E m \in {execute(Machine)} :
          /\ Commit(m)
          /\ last' = Executed(m)
    /\ UNCHANGED <<scheduled, pipeVars, goals, avoid, query, sm>>

\* The scheduler driven with leaf actions that answer every virtual
\* function in every way.
Next == ScheduleAction \/ Execute

Spec == Init /\ [][Next]_vars

\* The scheduler driven as the demo drives it.
DemoNext == ScheduleDemoAction \/ ScheduleSequence \/ Execute

DemoSpec == Init /\ [][DemoNext]_vars

\* A call of execute() would change something: Execute is enabled and is
\* no stuttering step.
ExecuteChanges ==
    /\ pc = "idle"
    /\ \E m \in {execute(Machine)} :
          <<m.heap, m.actionQueue, m.active, m.activePriority, m.pc, m.freed,
            Executed(m)>>
             # <<heap, actionQueue, active, activePriority, pc, freed, last>>

\* The demo's loop with its preset actions when it keeps running the
\* manager.
DrainNext == ScheduleDemoAction \/ Execute

\* Weak fairness of Execute, written with its enabling condition: a call
\* of execute() that would change something is not put off for ever.
DrainSpec ==
    Init /\ [][DrainNext]_vars
         /\ (<>[]ExecuteChanges => []<><<Execute>>_vars)

\* Number of ActionCombinations in a behaviour of CombSpec.
MaxCombinations == 1

\* The sub-actions a combination is built from: leaf actions given by
\* <<actCount, canInterrupt, canDoBoth>>, a one-shot action and two that
\* need a second act() call.
SubOptions == {<<1, FALSE, TRUE>>, <<2, TRUE, TRUE>>, <<2, FALSE, FALSE>>}

\* The sub-action lists of up to MaxSubs sub-actions, the empty one too.
SubLists == UNION {[1..k -> SubOptions] : k \in 0..MaxSubs}

\* The sub-action list of a combination at address a: the leaves that
\* subs describes, linked in order.
RECURSIVE NewLeaves(_, _, _, _)
NewLeaves(h, a, j, subs) ==
    IF j > Len(subs) THEN h
    ELSE NewLeaves(
             New(h, SubId(a, j),
                 [Leaf(subs[j][1], 0, subs[j][2], subs[j][3]) EXCEPT
                     !.next = IF j = Len(subs) THEN NULL
                              ELSE SubId(a, j + 1)]),
             a, j + 1, subs)

\* The caller builds an ActionCombination of the given sub-actions and
\* schedules it.  `new ActionCombination` leaves the priority
\* uninitialised, so it is any value.
ScheduleCombination ==
    /\ pc = "idle"
    /\ scheduled < MaxCombinations
    /\ \E subs \in SubLists, priority \in Priorities :
          \E m \in {scheduleAction(
                      [Machine EXCEPT !.heap =
                          New(NewLeaves(heap, scheduled + 1, 1, subs),
                              scheduled + 1,
                              ActionCombination(
                                  priority,
                                  IF subs = <<>> THEN NULL
                                  ELSE SubId(scheduled + 1, 1),
                                  Len(subs)))],
                      scheduled + 1)} :
             Commit(m)
    /\ scheduled' = scheduled + 1
    /\ last' = NoCall("schedule")
    /\ UNCHANGED <<pipeVars, goals, avoid, query, sm>>

\* The scheduler driven with combinations.
CombNext == ScheduleCombination \/ Execute

CombSpec == Init /\ [][CombNext]_vars

\* The caller builds an ActionSequence of the given sub-actions and
\* schedules it; the priority is any value, as for the combination.
ScheduleSequenceOf ==
    /\ pc = "idle"
    /\ scheduled < MaxCombinations
    /\ \E subs \in SubLists, priority \in Priorities :
          \E m \in {scheduleAction(
                      [Machine EXCEPT !.heap =
                          New(NewLeaves(heap, scheduled + 1, 1, subs),
                              scheduled + 1,
                              ActionSequence(
                                  priority,
                                  IF subs = <<>> THEN NULL
                                  ELSE SubId(scheduled + 1, 1),
                                  Len(subs)))],
                      scheduled + 1)} :
             Commit(m)
    /\ scheduled' = scheduled + 1
    /\ last' = NoCall("schedule")
    /\ UNCHANGED <<pipeVars, goals, avoid, query, sm>>

\* The live compounds.
Compounds == {a \in DOMAIN heap : heap[a].kind \in ActionCompound}

\* this->canInterrupt() asked of any live compound; the questions change
\* nothing, so one in a behaviour is enough.
CanInterrupt ==
    /\ pc = "idle"
    /\ query.op = "none"
    /\ \E this \in Compounds :
          query' = [op |-> "canInterrupt", this |-> this, other |-> NULL,
                    result |-> canInterrupt(heap, this)]
    /\ UNCHANGED <<managerVars, pc, pipeVars, goals, avoid, sm>>

\* this->canDoBoth(other) asked of any live compound about any live action.
CanDoBoth ==
    /\ pc = "idle"
    /\ query.op = "none"
    /\ \E this \in Compounds, other \in DOMAIN heap :
          query' = [op |-> "canDoBoth", this |-> this, other |-> other,
                    result |-> canDoBoth(heap, this, other)]
    /\ UNCHANGED <<managerVars, pc, pipeVars, goals, avoid, sm>>

\* The scheduler driven with compounds of both kinds, and the compounds
\* questioned between the calls.
CompoundNext ==
    \/ ScheduleCombination
    \/ ScheduleSequenceOf
    \/ CanInterrupt
    \/ CanDoBoth

CompoundSpec == Init /\ [][CompoundNext]_vars

\* ------------------------------------------------- the pipe's behaviours

\* Sizes of the three component lists and the largest constraintSteps the
\* caller sets.
MaxTargeters == 2
MaxDecomposers == 2
MaxConstraints == 2
MaxSteps == 2

\* The channels of a goal.
Channels == {"position", "orientation", "velocity", "rotation"}

\* The goal that sets the given channels to the given value.
GoalWith(channels, value) ==
    [position |-> IF "position" \in channels THEN value ELSE 0,
     positionSet |-> "position" \in channels,
     orientation |-> IF "orientation" \in channels THEN value ELSE 0,
     orientationSet |-> "orientation" \in channels,
     velocity |-> IF "velocity" \in channels THEN value ELSE 0,
     velocitySet |-> "velocity" \in channels,
     rotation |-> IF "rotation" \in channels THEN value ELSE 0,
     rotationSet |-> "rotation" \in channels]

\* The channel sets of the targeters' goals: single channels and pairs
\* that overlap with the others in one channel or in none.
TargeterChannels ==
    {{"position"}, {"orientation"}, {"position", "velocity"},
     {"velocity", "rotation"}}

\* The answers of a constraint to the paths of the later iterations, and
\* the indeterminate values of a local goal's orientation and rotation.
LaterViolations == {1, REAL_MAX}
IndeterminateReals == {0, 7}

PipeCommit(p) ==
    /\ actuator' = p.actuator
    /\ targeters' = p.targeters
    /\ decomposers' = p.decomposers
    /\ constraints' = p.constraints
    /\ constraintSteps' = p.constraintSteps
    /\ fallback' = p.fallback
    /\ path' = p.path
    /\ paths' = p.paths
    /\ registered' = p.registered
    /\ output' = p.output
    /\ call' = p.call
    /\ pc' = p.pc

\* The caller appends a FixedGoalTargeter to the list; the channels its
\* goal sets carry the targeter's place in the list as their value.
AddTargeter ==
    /\ pc = "idle"
    /\ Len(targeters) < MaxTargeters
    /\ \E channels \in TargeterChannels :
          PipeCommit(Settled([Pipe EXCEPT
              !.targeters =
                  Append(@, FixedGoalTargeter(
                                GoalWith(channels, Len(targeters) + 1)))]))
    /\ UNCHANGED <<managerVars, goals, avoid, query, sm>>

\* The caller appends a decomposer to the list.
AddDecomposer ==
    /\ pc = "idle"
    /\ Len(decomposers) < MaxDecomposers
    /\ \E kind \in {"aim", "turn"} :
          PipeCommit(Settled([Pipe EXCEPT
              !.decomposers = Append(@, Decomposer(kind))]))
    /\ UNCHANGED <<managerVars, goals, avoid, query, sm>>

\* The caller appends a constraint to the list.  (Constraints are added
\* once constraintSteps is at most MaxSteps: the negotiation is the same
\* loop for every number of iterations.)
AddConstraint ==
    /\ pc = "idle"
    /\ Len(constraints) < MaxConstraints
    /\ constraintSteps <= MaxSteps
    /\ \E first \in Violations, later \in LaterViolations,
          suggestionUsed \in BOOLEAN :
          PipeCommit(Settled([Pipe EXCEPT
              !.constraints =
                  Append(@, Constraint(first, later,
                                       10 + Len(constraints) + 1,
                                       suggestionUsed))]))
    /\ UNCHANGED <<managerVars, goals, avoid, query, sm>>

\* The caller assigns constraintSteps.
SetConstraintSteps ==
    /\ pc = "idle"
    /\ \E steps \in 0..MaxSteps :
          PipeCommit(Settled([Pipe EXCEPT
              !.constraintSteps = steps]))
    /\ UNCHANGED <<managerVars, goals, avoid, query, sm>>

\* The caller assigns fallback: a steering behaviour or none.
SetFallback ==
    /\ pc = "idle"
    /\ \E behaviour \in {NULL, 1} :
          PipeCommit(Settled([Pipe EXCEPT
              !.fallback = behaviour]))
    /\ UNCHANGED <<managerVars, goals, avoid, query, sm>>

\* The caller calls setActuator with an actuator or with a null pointer.
SetActuator ==
    /\ pc = "idle"
    /\ \E a \in Actuators \cup {NULL} : PipeCommit(setActuator(Pipe, a))
    /\ UNCHANGED <<managerVars, goals, avoid, query, sm>>

\* The caller calls registerComponents.
RegisterComponents ==
    /\ pc = "idle"
    /\ \E reaches \in BOOLEAN : PipeCommit(registerComponents(Pipe, reaches))
    /\ UNCHANGED <<managerVars, goals, avoid, query, sm>>

\* One tick: the caller calls getSteering.
GetSteering ==
    /\ pc = "idle"
    /\ \E value \in IndeterminateReals :
          \E p \in {getSteering(Pipe, value, value)} : PipeCommit(p)
    /\ UNCHANGED <<managerVars, goals, avoid, query, sm>>

\* The pipe with targeters and decomposers and no constraints.
TargetNext ==
    \/ AddTargeter
    \/ AddDecomposer
    \/ SetConstraintSteps
    \/ SetFallback
    \/ SetActuator
    \/ GetSteering

TargetSpec == Init /\ [][TargetNext]_vars

\* The caller appends a constraint that the path to the decomposed goal
\* violates and the path to its suggestion does not.
AddViolatedConstraint ==
    /\ pc = "idle"
    /\ Len(constraints) < MaxConstraints
    /\ \E place \in {10 + Len(constraints) + 1} :
          PipeCommit(Settled([Pipe EXCEPT
              !.constraints =
                  Append(@, Constraint(1, REAL_MAX, place,
                                       FALSE))]))
    /\ UNCHANGED <<managerVars, goals, avoid, query, sm>>

\* The whole pipe: targeters, decomposers and constraints that take one
\* suggestion to satisfy.
DecomposeNext ==
    \/ AddTargeter
    \/ AddDecomposer
    \/ AddViolatedConstraint
    \/ SetActuator
    \/ GetSteering

DecomposeSpec == Init /\ [][DecomposeNext]_vars

\* The pipe with constraints and no targeters.
PipeNext ==
    \/ AddConstraint
    \/ SetConstraintSteps
    \/ SetFallback
    \/ SetActuator
    \/ GetSteering

PipeSpec == Init /\ [][PipeNext]_vars

\* The set-up of the pipe: components are added and registered, the
\* actuator is set, and the pipe is run.
SetupNext ==
    \/ AddTargeter
    \/ AddDecomposer
    \/ SetActuator
    \/ RegisterComponents
    \/ GetSteering

SetupSpec == Init /\ [][SetupNext]_vars

\* ---------------------------------------------- the goals' behaviours

\* All goals: every channel set or not, with any value.
Goals ==
    [position : GoalValues, positionSet : BOOLEAN,
     orientation : GoalValues, orientationSet : BOOLEAN,
     velocity : GoalValues, velocitySet : BOOLEAN,
     rotation : GoalValues, rotationSet : BOOLEAN]

\* Any two goals.
GoalInit ==
    /\ pc = "idle"
    /\ ActionManager
    /\ SteeringPipe
    /\ \E this \in Goals, goal \in Goals :
          goals = [this |-> this, goal |-> goal, was |-> this, op |-> "none"]
    /\ avoid = NoAvoid
    /\ query = NoQuery
    /\ sm = NoStateMachine

\* this.updateGoal(goal) in a build that checks assertions (a failed
\* assertion aborts the program) or in one that does not.
UpdateGoal ==
    /\ pc = "idle"
    /\ goals.op = "none"
    /\ \E ndebug \in BOOLEAN :
          \E r \in {updateGoal(goals.this, goals.goal)} :
             IF r.ok \/ ndebug
             THEN /\ goals' = [goals EXCEPT !.this = r.goal,
                                            !.op = "updateGoal"]
                  /\ pc' = pc
             ELSE /\ goals' = [goals EXCEPT !.op = "assert"]
                  /\ pc' = "aborted"
    /\ UNCHANGED <<managerVars, pipeVars, avoid, query, sm>>

\* this.clear()
Clear ==
    /\ pc = "idle"
    /\ goals.op = "none"
    /\ goals' = [goals EXCEPT !.op = "clear", !.this = clear(@)]
    /\ UNCHANGED <<managerVars, pc, pipeVars, avoid, query, sm>>

GoalNext == UpdateGoal \/ Clear

GoalSpec == GoalInit /\ [][GoalNext]_vars

\* -------------------------------------------- the constraint's behaviours
\* The places of characters, goals and sphere centres.
Points == (-1 .. 2) \X (0 .. 1)
Characters == {<<0, 0>>, <<1, 0>>}
\* Spheres have a positive radius; the margin is not negative.
Radii == {1, 2}
Margins == {0, 1}
Spheres == {Sphere(position, radius) : position \in Points, radius \in Radii}
ObstacleLists == UNION {[1 .. k -> Spheres] : k \in 0 .. MaxObstacles}
\* The lookaheads a caller passes: one step, or no limit.
Lookaheads == {Real(1, 1), RealMax}

\* The suggestion an earlier call left in the constraint, for an obstacle
\* that is no longer in the list.
LeftOver == PositionGoal(TRUE, AvoidancePoint(<<5, 5>>, <<1, 0>>, 1))

\* A registered constraint with any obstacles, called before (when earlier
\* is true) or not, a character, and a path the actuator made for any goal.
AvoidInitWith(earlier, lookaheads) ==
    /\ pc = "idle"
    /\ ActionManager
    /\ SteeringPipe
    /\ goals = NoGoals
    /\ query = NoQuery
    /\ sm = NoStateMachine
    /\ \E obstacles \in ObstacleLists, avoidMargin \in Margins,
          position \in Characters, target \in Points,
          positionSet \in BOOLEAN, maxPriority \in lookaheads,
          called \in earlier :
          avoid = [this |-> [AvoidSpheresConstraint(obstacles, avoidMargin)
                               EXCEPT !.suggestion =
                                          IF called THEN LeftOver ELSE @],
                   character |-> [position |-> position],
                   path |-> [goal |-> PositionGoal(positionSet, target)],
                   maxPriority |-> maxPriority,
                   result |-> RealMax,
                   suggested |-> PositionGoal(FALSE, <<0, 0>>),
                   op |-> "none"]

\* The constraint before its first call.
AvoidInit == AvoidInitWith({FALSE}, Lookaheads)

\* this->willViolate(path, maxPriority)
WillViolate ==
    /\ pc = "idle"
    /\ avoid.op = "none"
    /\ \E r \in {AvoidSpheresConstraintWillViolate(
                     avoid.this, avoid.character, avoid.path,
                     avoid.maxPriority)} :
          avoid' = [avoid EXCEPT !.this = r.this, !.result = r.result,
                                 !.op = "willViolate"]
    /\ UNCHANGED <<managerVars, pc, pipeVars, goals, query, sm>>

AvoidNext == WillViolate

AvoidSpec == AvoidInit /\ [][AvoidNext]_vars

\* The constraint before its first call or after an earlier one.
SuggestInit == AvoidInitWith(BOOLEAN, {RealMax})

\* this->suggest(path), after willViolate as in the pipe.
Suggest ==
    /\ pc = "idle"
    /\ avoid.op = "willViolate"
    /\ avoid' = [avoid EXCEPT
                    !.suggested =
                        AvoidSpheresConstraintSuggest(avoid.this, avoid.path),
                    !.op = "suggest"]
    /\ UNCHANGED <<managerVars, pc, pipeVars, goals, query, sm>>

SuggestNext == WillViolate \/ Suggest

SuggestSpec == SuggestInit /\ [][SuggestNext]_vars

\* ------------------------------------------ the state machine's behaviours
\* The values the watched integer takes; 0 matches no condition.
Options == 0 .. 2

\* The transitions a state can have: each watches for 1 or 2, leads to one
\* of the two states and makes one action or none.
Transitions == {Transition(watch, target, actions) :
                   watch \in 1 .. 2, target \in 1 .. 2, actions \in 0 .. 1}

\* The lists of at most n transitions.
TransitionLists(n) == UNION {[1 .. k -> Transitions] : k \in 0 .. n}

\* A machine of two states set up as in sm_demo.cpp (currentState = NULL),
\* with any transitions, with or without exit actions, and with any
\* initialState.
SmInit ==
    /\ pc = "idle"
    /\ ActionManager
    /\ SteeringPipe
    /\ goals = NoGoals
    /\ avoid = NoAvoid
    /\ query = NoQuery
    /\ \E first \in TransitionLists(MaxTransitions),
          second \in TransitionLists(1),
          exits \in [1 .. 2 -> 0 .. 1],
          initialState \in {NULL, 1, 2} :
          sm = [NoStateMachine EXCEPT
                   !.states = <<StateMachineState(1, 1, exits[1], first),
                                StateMachineState(1, 1, exits[2], second)>>,
                   !.initialState = initialState,
                   !.op = "ready"]

\* sm.update() in a frame in which the watched integer is option.
Update ==
    /\ pc = "idle"
    /\ sm.op \in {"ready", "update"}
    /\ \E option \in Options : sm' = update(sm, option)
    /\ UNCHANGED <<managerVars, pc, pipeVars, goals, avoid, query>>

SmNext == Update

SmSpec == SmInit /\ [][SmNext]_vars

\* ------------------------------------------------------------ properties

\* The two lists of the manager as sequences of addresses.
Queue == List(heap, actionQueue)
Active == List(heap, active)

\* The fields of every action that was live when the last call started:
\* the live ones as they are now, the deleted ones as they were when they
\* were deleted.  (priority, interrupt and both never change.)
Known ==
    [a \in (DOMAIN heap) \cup (DOMAIN last.deleted) |->
        IF a \in DOMAIN heap THEN heap[a] ELSE last.deleted[a]]

\* The last call was an execute() and it has returned.
Returned == last.op = "execute" /\ pc = "idle"

\* The actions that were in the active list when runActive ran in the last
\* execute(): those still there and those it completed.
RanActive == Range(Active) \cup last.completed

\* C1: every call to execute() returns: no call stays inside checkInterrupts,
\* addAllToActive or runActive for ever.
C1_ExecuteReturns == pc = "idle"

\* The last execute() started from an empty active list and a queue of
\* exactly two actions.
TwoQueued == last.op = "execute" /\ last.active = <<>> /\ Len(last.actionQueue) = 2

Mutual(a, b) == canDoBoth(Known, a, b) /\ canDoBoth(Known, b, a)

\* C2: an execute() that starts with an empty active list and two queued
\* actions that answer canDoBoth true to each other puts both of them into
\* the active list in that call.
C2_MergesBoth ==
    (Returned /\ TwoQueued
        /\ Mutual(last.actionQueue[1], last.actionQueue[2]))
    => Range(last.actionQueue) \subseteq RanActive

\* C3 as claimed: an execute() that starts with an empty active list and
\* two queued actions of which one answers canDoBoth false to the other
\* puts neither of them into the active list.
C3_MergesNeither ==
    (Returned /\ TwoQueued
        /\ ~Mutual(last.actionQueue[1], last.actionQueue[2]))
    => Range(last.actionQueue) \cap RanActive = {}

\* C3 as amended: such an execute() returns, and it has put exactly one of
\* the two into the active list and left the other one in the queue.
C3_MergesOnlyOne ==
    (TwoQueued /\ ~Mutual(last.actionQueue[1], last.actionQueue[2]))
    => /\ pc = "idle"
       /\ Cardinality(Range(last.actionQueue) \cap RanActive) = 1
       /\ Cardinality(Range(last.actionQueue) \cap Range(Queue)) = 1
       /\ Len(Queue) = 1

\* An execute() has returned that started from an empty active list and a
\* queue of two actions of which exactly one answers canDoBoth true.
C3_Witness ==
    /\ Returned /\ TwoQueued
    /\ canDoBoth(Known, last.actionQueue[1], last.actionQueue[2])
    /\ ~canDoBoth(Known, last.actionQueue[2], last.actionQueue[1])
    /\ last.actionQueue[1] \in Range(Active)

\* The queued actions of the last call's start that outrank the active
\* action a and can interrupt.
Preempters(a) ==
    {q \in Range(last.actionQueue) :
        Known[q].priority > Known[a].priority /\ canInterrupt(Known, q)}

\* C4: when the active list holds an action and the queue holds an action
\* of greater priority that can interrupt, the next execute() destroys the
\* active action and makes such a queued action the active one.
C4_Preempts ==
    Returned =>
        \A a \in Range(last.active) :
            Preempters(a) # {} =>
                /\ a \in (DOMAIN last.deleted) \ last.completed
                /\ last.interrupter \in Preempters(a)
                /\ last.interrupter \in RanActive

\* C5 as claimed: when a queued action outranks the active action and
\* cannot interrupt, the next execute() keeps the active action (unless it
\* completes) and keeps the queued action in the queue.
C5_KeepsActive ==
    last.op = "execute" =>
        \A a \in Range(last.active), q \in Range(last.actionQueue) :
            (Known[q].priority > Known[a].priority /\ ~canInterrupt(Known, q))
            => /\ a \in RanActive
               /\ q \in Range(Queue)

\* C5 as amended: such a queued action never interrupts: it stays in the
\* queue, and the active action stays active unless it completes or some
\* other queued action interrupts.
C5_NeverInterrupts ==
    last.op = "execute" =>
        \A a \in Range(last.active), q \in Range(last.actionQueue) :
            (Known[q].priority > Known[a].priority /\ ~canInterrupt(Known, q))
            => /\ q \in Range(Queue)
               /\ last.interrupter # q
               /\ a \in RanActive \/ last.interrupter # NULL

\* An execute() has returned that started with an active action and only
\* a queued action that outranks it and cannot interrupt.
C5_Witness ==
    /\ Returned
    /\ Len(last.active) = 1 /\ Len(last.actionQueue) = 1
    /\ Known[last.actionQueue[1]].priority > Known[last.active[1]].priority
    /\ ~canInterrupt(Known, last.actionQueue[1])
    /\ Queue = last.actionQueue
    /\ Active = last.active

\* C6: after any sequence of scheduleAction and execute calls the queue is
\* in order of non-increasing priority from head to tail.
C6_QueueSorted ==
    \A q \in {Queue} :
        \A i, j \in DOMAIN q :
            i < j => heap[q[i]].priority >= heap[q[j]].priority

\* Three actions scheduled with a middle, the highest and the lowest
\* priority, in that order, are queued highest first.
C6_Witness ==
    /\ Queue = <<2, 1, 3>>
    /\ heap[2].priority > heap[1].priority
    /\ heap[1].priority > heap[3].priority

C8_Ownership ==
    \A q \in {Queue}, r \in {Active} :
        /\ Len(q) = Cardinality(Range(q))
        /\ Len(r) = Cardinality(Range(r))
        /\ Range(q) \cap Range(r) = {}
        /\ (Range(q) \cup Range(r)) \cap freed = {}
        /\ (Range(q) \cup Range(r)) \subseteq DOMAIN heap
        /\ freed \cap DOMAIN heap = {}
        /\ (1..scheduled) \subseteq Range(q) \cup Range(r) \cup freed

\* An execute() has returned in which a queued action interrupted and
\* destroyed the active one while another action stayed queued.
C8_Witness ==
    /\ Returned
    /\ last.interrupter # NULL
    /\ last.active # <<>>
    /\ Range(last.active) \subseteq freed
    /\ Queue # <<>>
    /\ Active # <<>>

\* C9: a DemoAction that needs N act() calls and is not interrupted is in
\* the active list during exactly N consecutive execute() calls, the first
\* being the one that activates it, receives one act() call in each, is
\* deleted in the N-th and is in neither list afterwards.
C9_Lifecycle ==
    \A q \in {Range(Queue)}, r \in {Range(Active)} :
        /\ \A a \in q :
              heap[a].kind = "leaf" => heap[a].acted = 0 /\ heap[a].ticks = 0
        /\ \A a \in r :
              heap[a].kind = "leaf" =>
                  /\ 1 <= heap[a].ticks
                  /\ heap[a].acted = heap[a].ticks
                  /\ heap[a].acted < heap[a].total
        /\ \A a \in last.completed :
              last.deleted[a].kind = "leaf" =>
                  /\ last.deleted[a].acted = last.deleted[a].total
                  /\ last.deleted[a].ticks = last.deleted[a].total
        /\ (last.op = "execute" /\ last.interrupter = NULL)
              => Range(last.active) \subseteq r \cup last.completed
        /\ last.completed \subseteq freed
        /\ freed \cap (q \cup r) = {}

\* An execute() has returned in which a DemoAction that needed more than
\* one act() call completed without an interruption.
C9_Witness ==
    /\ Returned
    /\ last.interrupter = NULL
    /\ \E a \in last.completed :
          /\ last.deleted[a].kind = "leaf"
          /\ last.deleted[a].total >= 2
          /\ a \in Range(last.active)

\* The addresses of the sub-actions number from to to of the sequence s.
SubActionsOf(s, from, to) == [i \in 1..(to - from + 1) |-> SubId(s, from + i - 1)]

C11_EmptyIsNoOp ==
    (last.op = "execute" /\ last.actionQueue = <<>> /\ last.active = <<>>)
    => /\ pc = "idle"
       /\ actionQueue = NULL
       /\ active = NULL
       /\ activePriority = last.activePriority
       /\ last.interrupter = NULL
       /\ last.completed = {}
       /\ DOMAIN last.deleted = {}
       /\ DOMAIN heap = {}

\* An execute() has returned that started with both lists empty after
\* earlier actions had raised the active priority and had all completed.
C11_Witness ==
    /\ Returned
    /\ last.actionQueue = <<>> /\ last.active = <<>>
    /\ scheduled > 0
    /\ activePriority > 0

\* Whether goal g sets channel c, and the value it holds there.
IsSet(g, c) ==
    CASE c = "position" -> g.positionSet
      [] c = "orientation" -> g.orientationSet
      [] c = "velocity" -> g.velocitySet
      [] c = "rotation" -> g.rotationSet

ValueOf(g, c) ==
    CASE c = "position" -> g.position
      [] c = "orientation" -> g.orientation
      [] c = "velocity" -> g.velocity
      [] c = "rotation" -> g.rotation

\* The channels a goal sets; two goals overlap when both set some channel.
SetChannels(g) == {c \in Channels : IsSet(g, c)}
Overlap(a, b) == SetChannels(a) \cap SetChannels(b) # {}

\* C15: for all goals A and B, A.canMergeGoals(B) is true exactly when no
\* channel is set in both, and it is symmetric; when it is true,
\* A.updateGoal(B) leaves A with exactly the union of the set channels,
\* every channel holding the value of the goal that set it.
C15_GoalMerge ==
    /\ canMergeGoals(goals.was, goals.goal) = ~Overlap(goals.was, goals.goal)
    /\ canMergeGoals(goals.was, goals.goal) = canMergeGoals(goals.goal, goals.was)
    /\ (goals.op = "updateGoal" /\ canMergeGoals(goals.was, goals.goal)) =>
          /\ SetChannels(goals.this)
                = SetChannels(goals.was) \cup SetChannels(goals.goal)
          /\ \A c \in SetChannels(goals.was) :
                ValueOf(goals.this, c) = ValueOf(goals.was, c)
          /\ \A c \in SetChannels(goals.goal) :
                ValueOf(goals.this, c) = ValueOf(goals.goal, c)

\* A goal with two channels set has been updated with a goal that sets the
\* two other channels, and holds other values in its unset channels.
C15_Witness ==
    /\ goals.op = "updateGoal"
    /\ Cardinality(SetChannels(goals.was)) = 2
    /\ Cardinality(SetChannels(goals.goal)) = 2
    /\ SetChannels(goals.this) = Channels
    /\ \A c \in SetChannels(goals.was) :
          ValueOf(goals.goal, c) # ValueOf(goals.was, c)

\* The last call was a getSteering.
Ticked == call.op = "getSteering"

\* The channels the goal of the last getSteering had taken from the first
\* k targeters: those of the results that were merged.
Taken(k) ==
    UNION {SetChannels(call.results[j]) :
              j \in {i \in 1..k : call.merged[i]}}

\* C16: getSteering asks every targeter once, in registration order; a
\* result is merged exactly when it shares no set channel with the goal
\* accumulated from the earlier ones, and is otherwise dropped as a whole;
\* the accumulated goal sets exactly the channels of the merged results,
\* each with the value of the one merged result that sets it, which is the
\* earliest registered one; the assertion of updateGoal holds in every call.
C16_TargetersMerge ==
    Ticked =>
        /\ call.results = [i \in DOMAIN targeters |-> getGoal(targeters[i])]
        /\ DOMAIN call.merged = DOMAIN targeters
        /\ \A i \in DOMAIN targeters :
              call.merged[i]
                 = (SetChannels(call.results[i]) \cap Taken(i - 1) = {})
        /\ SetChannels(call.goal) = Taken(Len(targeters))
        /\ \A c \in SetChannels(call.goal) :
              \E i \in DOMAIN targeters :
                 /\ call.merged[i]
                 /\ IsSet(call.results[i], c)
                 /\ ValueOf(call.goal, c) = ValueOf(call.results[i], c)
                 /\ \A j \in 1..(i - 1) :
                       ~(call.merged[j] /\ IsSet(call.results[j], c))
        /\ call.asserted

\* A getSteering has run in which the second targeter's goal shared one of
\* its two channels with the first one's and was dropped as a whole.
C16_Witness ==
    /\ Ticked
    /\ Len(targeters) = 2
    /\ call.merged = <<TRUE, FALSE>>
    /\ Cardinality(SetChannels(call.results[2])) = 2
    /\ Cardinality(SetChannels(call.results[2]) \cap SetChannels(call.results[1])) = 1
    /\ SetChannels(call.goal) = SetChannels(call.results[1])

\* The goal g after the decomposers from the k-th on.
RECURSIVE Decomposed(_, _)
Decomposed(g, k) ==
    IF k > Len(decomposers) THEN g
    ELSE Decomposed(decomposeGoal(decomposers[k], g), k + 1)

\* The last call was a getSteering of a pipe that had an actuator and no
\* constraints.
TickedUnconstrained ==
    Ticked /\ call.actuator \in Actuators /\ constraints = <<>>

\* The last getSteering asked for one path, to the decomposed goal of the
\* targeters, and returned the actuator's steering for it.
ConvergedAtOnce ==
    /\ pc = "idle"
    /\ call.exit = "converged"
    /\ call.getPath = 1
    /\ Len(call.iterations) = 1
    /\ call.getSteering = 1
    /\ call.fallbackGetSteering = 0
    /\ call.decomposed = Decomposed(call.goal, 1)
    /\ paths[path].goal = call.decomposed
    /\ output = [by |-> "actuator", goal |-> call.decomposed]

\* C12 as claimed: with no constraints getSteering runs exactly one
\* iteration (one getPath call), never calls the fallback, and the output
\* is the actuator's steering for the path to the targeters' goal after
\* decomposition.
C12_OneIteration == TickedUnconstrained => ConvergedAtOnce

\* C12 as amended: that holds when constraintSteps is at least one; when it
\* is zero no iteration runs, no path is asked for, the actuator's
\* getSteering is not called, and the fallback writes the output if there
\* is one.
C12_OneIterationIfAny ==
    TickedUnconstrained =>
        IF call.constraintSteps >= 1
        THEN ConvergedAtOnce
        ELSE /\ pc = "idle"
             /\ call.exit = "exhausted"
             /\ call.getPath = 0
             /\ call.iterations = <<>>
             /\ call.getSteering = 0
             /\ call.fallbackGetSteering = (IF call.fallback # NULL THEN 1 ELSE 0)
             /\ output.by = (IF call.fallback # NULL THEN "fallback" ELSE "nobody")

\* A getSteering has converged for a pipe with no constraints, a fallback,
\* two merged targeters and a decomposer, with constraintSteps set to one.
C12_Witness ==
    /\ TickedUnconstrained
    /\ call.constraintSteps = 1
    /\ call.fallback # NULL
    /\ call.merged = <<TRUE, TRUE>>
    /\ decomposers # <<>>
    /\ call.decomposed # call.goal
    /\ output.by = "actuator"

\* The last call was a getSteering of a pipe that had an actuator.
TickedWithActuator == Ticked /\ call.actuator \in Actuators

\* Constraint c reports a violation between zero and the path's maximum
\* priority in every iteration.
AlwaysViolates(c) ==
    /\ 0 < c.first /\ c.first < Distance
    /\ 0 < c.later /\ c.later < Distance

\* The last getSteering ran constraintSteps iterations, each with one
\* getPath and one suggest call, and never asked the actuator to steer.
RanAllIterations ==
    /\ pc = "idle"
    /\ call.exit = "exhausted"
    /\ Len(call.iterations) = call.constraintSteps
    /\ call.getPath = call.constraintSteps
    /\ call.suggest = call.constraintSteps
    /\ call.getSteering = 0

C14_BoundedAndExclusive ==
    TickedWithActuator =>
        /\ pc = "idle"
        /\ call.getPath = Len(call.iterations)
        /\ call.getPath <= call.constraintSteps
        /\ call.willViolate = Len(call.iterations) * Len(constraints)
        /\ call.willViolate <= call.constraintSteps * Len(constraints)
        /\ \A i \in DOMAIN call.iterations :
              Len(call.iterations[i].answers) = Len(constraints)
        /\ \/ /\ call.exit = "converged"
              /\ call.getSteering = 1
              /\ call.fallbackGetSteering = 0
           \/ /\ call.exit = "exhausted"
              /\ call.getSteering = 0
              /\ call.fallbackGetSteering = (IF call.fallback # NULL THEN 1 ELSE 0)

\* A getSteering with two constraints has used a suggestion in its first
\* iteration and converged in its second and last one.
C14_Witness ==
    /\ TickedWithActuator
    /\ Len(constraints) = 2
    /\ call.constraintSteps = 2
    /\ call.fallback # NULL
    /\ call.exit = "converged"
    /\ call.getPath = 2
    /\ call.willViolate = 4
    /\ call.suggest = 1


\* C17 as claimed: a null or never assigned actuator is rejected by the
\* set-up, so no getSteering call starts with such an actuator.
C17_NullActuatorRejected ==
    call.op = "getSteering" => call.actuator \in Actuators

\* One step of the pipe, as far as its Path object goes: the pipe holds
\* the Path object its pointer names and no other; a getSteering with a
\* Path object keeps it and creates none; a getSteering without one asks
\* the actuator for exactly one; and a pipe loses its Path object only by
\* ending up with none (in setActuator), never by getting another.
PathStep ==
    /\ DOMAIN paths' = (IF path' = NULL THEN {} ELSE {path'})
    /\ (call'.op = "getSteering" /\ path # NULL)
           => /\ path' = path
              /\ call'.createPathObject = 0
    /\ (call'.op = "getSteering" /\ path = NULL /\ actuator \in Actuators)
           => /\ path' # NULL
              /\ call'.createPathObject = 1
    /\ (call'.op # "getSteering" /\ path' # path) => path' = NULL
    /\ (path # NULL /\ path' # path) => path' = NULL

\* C18: a pipe holds at most one Path object; it is created by the
\* actuator's createPathObject in the first getSteering after the
\* construction or after a setActuator, and every later getSteering uses
\* the same object: createPathObject is called at most once per
\* setActuator.
C18_PathLifetime == [][PathStep]_vars

\* A getSteering has started with a Path object of an earlier call, has
\* created none and has left the pipe with the same object.
C18_Witness ==
    /\ TickedWithActuator
    /\ call.path # NULL
    /\ path = call.path
    /\ call.createPathObject = 0
    /\ call.getPath > 0

\* The constraints that answered something else than REAL_MAX, the value
\* that says no violation, in an iteration with the given answers.
Violated(answers) == {c \in DOMAIN answers : answers[c] # REAL_MAX}

\* The first constraint with the smallest answer among those.
Smallest(answers) ==
    CHOOSE c \in Violated(answers) :
        \A d \in Violated(answers) :
            \/ answers[c] < answers[d]
            \/ answers[c] = answers[d] /\ c <= d

\* C19 as claimed: in every iteration, among the constraints whose
\* willViolate did not answer REAL_MAX, the first one with the smallest
\* answer (zero included) is the one whose suggestion replaces the goal.
C19_SmallestSuggests ==
    TickedWithActuator =>
        \A i \in DOMAIN call.iterations :
            \A answers \in {call.iterations[i].answers} :
                Violated(answers) # {}
                    => call.iterations[i].used = Smallest(answers)

\* Constraint c's suggest was used in an iteration of the last call.
Used(c) == \E i \in DOMAIN call.iterations : call.iterations[i].used = c

\* C20 as claimed: after a getSteering, whatever constraintSteps is, the
\* suggestionUsed flag of every constraint is true exactly when the
\* constraint's suggest was used in an iteration of that call.
C20_FlagsTellUse ==
    TickedWithActuator =>
        \A c \in DOMAIN constraints :
            constraints[c].suggestionUsed = Used(c)


\* C21: getSteering calls suggest on a constraint only when that
\* constraint's willViolate has, in the same iteration and for the same
\* path (no getPath call since), answered a violation above zero and below
\* the path's maximum priority; the constraint is one of the list, never
\* the unassigned pointer.  An iteration that uses no suggestion is the
\* one that converges.
C21_SuggestAfterViolation ==
    TickedWithActuator =>
        \A i \in DOMAIN call.iterations :
            \A it \in {call.iterations[i]} :
                IF it.used = 0
                THEN i = Len(call.iterations) /\ call.exit = "converged"
                ELSE /\ it.used \in DOMAIN constraints
                     /\ it.answers[it.used] > 0
                     /\ it.answers[it.used] < Distance
                     /\ it.answers[it.used] # REAL_MAX
                     /\ it.asked[it.used] = it.getPath
                     /\ it.getPath = i

\* A getSteering has used the suggestion of its second constraint in the
\* first iteration, the first constraint having answered REAL_MAX, and the
\* suggestion of the first in the second iteration.
C21_Witness ==
    /\ TickedWithActuator
    /\ Len(constraints) = 2
    /\ Len(call.iterations) = 2
    /\ call.iterations[1].answers[1] = REAL_MAX
    /\ call.iterations[1].used = 2
    /\ call.iterations[2].used = 1


\* C22: when a getSteering has run its constraintSteps iterations without
\* converging and the pipe has a fallback, the fallback's getSteering is
\* called exactly once and the output is the fallback's; the call returns
\* as any other (the caller goes on), without the actuator's getSteering.
C22_FallbackDecides ==
    (TickedWithActuator /\ call.exit = "exhausted" /\ call.fallback # NULL)
    => /\ Len(call.iterations) = call.constraintSteps
       /\ \A i \in DOMAIN call.iterations : call.iterations[i].used # 0
       /\ call.fallbackGetSteering = 1
       /\ call.getSteering = 0
       /\ output.by = "fallback"
       /\ pc = "idle"

\* A getSteering with a fallback has used a suggestion in its only
\* iteration and has ended in the fallback.
C22_Witness ==
    /\ TickedWithActuator
    /\ call.fallback # NULL
    /\ call.constraintSteps = 1
    /\ Len(call.iterations) = 1
    /\ call.iterations[1].used # 0
    /\ call.exit = "exhausted"
    /\ output.by = "fallback"


\* The components of the pipe: the members of its three lists and its
\* actuator.
Components ==
    {<<"targeters", ti>> : ti \in DOMAIN targeters}
        \cup {<<"decomposers", di>> : di \in DOMAIN decomposers}
        \cup {<<"constraints", ci>> : ci \in DOMAIN constraints}
        \cup {<<"actuator", actuator>>}

\* A step that gives a component its pipe is a registerComponents: it
\* leaves the lists, the actuator, the Path object, constraintSteps and the
\* fallback as they were, and, the pipe having an actuator, it returns
\* with every component of the pipe holding the pipe, in a state that
\* another registerComponents leaves as it is.
RegisterStep ==
    registered' # registered =>
        /\ UNCHANGED <<actuator, targeters, decomposers, constraints,
                       constraintSteps, fallback, path, paths>>
        /\ actuator \in Actuators =>
              /\ pc' = "idle"
              /\ registered' = registered \cup Components
              /\ \A reaches \in BOOLEAN :
                    registerComponents(Pipe', reaches) = Pipe'

Candidates ==
    {q \in Range(last.actionQueue) :
        /\ canInterrupt(Known, q)
        /\ Known[q].priority >= last.activePriority}

\* C25: the action that checkInterrupts selects has the highest priority
\* among the queued actions that can interrupt and whose priority is at
\* least activePriority, and among those of that priority it is the one
\* scheduled first (the lowest address); none is selected only when there
\* is no such action.
C25_HighestInterrupts ==
    last.op = "execute" =>
        \A c \in {Candidates} :
            IF c = {}
            THEN last.interrupter = NULL
            ELSE /\ last.interrupter \in c
                 /\ \A q \in c :
                       \/ Known[last.interrupter].priority > Known[q].priority
                       \/ /\ Known[last.interrupter].priority = Known[q].priority
                          /\ last.interrupter <= q

\* An execute() has started with three queued actions: the head cannot
\* interrupt, the two behind it can and have the same priority, and the
\* first of those two, scheduled before the other, has been selected.
C25_Witness ==
    /\ last.op = "execute"
    /\ Len(last.actionQueue) = 3
    /\ ~canInterrupt(Known, last.actionQueue[1])
    /\ canInterrupt(Known, last.actionQueue[2])
    /\ canInterrupt(Known, last.actionQueue[3])
    /\ Known[last.actionQueue[2]].priority = Known[last.actionQueue[3]].priority
    /\ last.interrupter = last.actionQueue[2]


\* Not the action that interrupted in the last call.
NotInterrupter(a) == a # last.interrupter

\* C26: when an action has interrupted in checkInterrupts, every action of
\* the former active list is destroyed, and so is every sub-action of a
\* sequence among them; the interrupter is out of the queue and is the
\* whole active list, with a null next (unless runActive completed it in
\* the same call, which leaves the list empty); activePriority is its
\* priority; and the other queued actions are all still queued, in the
\* order they had: no second action has interrupted.
C26_Interruption ==
    (last.op = "execute" /\ last.interrupter # NULL) =>
        \A x \in {last.interrupter}, known \in {Known} :
            /\ \A a \in Range(last.active) :
                  /\ a \in (DOMAIN last.deleted) \ last.completed
                  /\ a \notin DOMAIN heap
                  /\ known[a].kind = "seq" =>
                        \A i \in 1..known[a].total :
                            SubId(a, i) \in freed \ DOMAIN heap
            /\ Queue = SelectSeq(last.actionQueue, NotInterrupter)
            /\ IF x \in last.completed
               THEN Active = <<>>
               ELSE Active = <<x>> /\ heap[x].next = NULL
            /\ activePriority = known[x].priority

\* An execute() has returned in which the second queued action interrupted
\* a sequence that had run one of its two sub-actions, while the action
\* queued before the interrupter stayed queued.
C26_Witness ==
    /\ Returned
    /\ Len(last.actionQueue) = 2
    /\ last.interrupter = last.actionQueue[2]
    /\ Len(Queue) = 1
    /\ \E s \in Range(last.active) :
          /\ last.deleted[s].kind = "seq"
          /\ last.deleted[s].total = 2
          /\ last.deleted[s].acted = 1
          /\ SubId(s, 2) \in DOMAIN last.deleted


\* C27 as claimed: after every execute() that leaves actions in the active
\* list, activePriority is the highest priority among them.
C27_ActivePriority ==
    Returned =>
        \A r \in {Active} :
            r # <<>> =>
                /\ \E a \in Range(r) : activePriority = heap[a].priority
                /\ \A a \in Range(r) : activePriority >= heap[a].priority


\* The verdict of checking the queued action q in both directions against
\* every member of the active list.
Verdict(q) ==
    IF \A a \in Range(Active) :
           canDoBoth(heap, a, q) /\ canDoBoth(heap, q, a)
    THEN "compatible"
    ELSE "nextInQueue"

NotCompleted(a) == a \notin last.completed

\* C29: in every execute() that returns, runActive calls act() once on
\* every action that is in the active list after checkInterrupts and
\* addAllToActive, and on no other (an action has received as many act()
\* calls as it has spent execute() calls in the active list); the actions
\* that are complete after their act() are exactly the ones unlinked and
\* deleted (no other scheduled action is deleted but the ones an
\* interruption destroyed); and the others are the active list afterwards,
\* in the order they had.
C29_RunActive ==
    Returned =>
        \A known \in {Known} :
            /\ \A a \in Range(last.ran) :
                  /\ known[a].ticks >= 1
                  /\ known[a].acted = known[a].ticks
                  /\ (a \in last.completed) = isComplete(known, a)
            /\ \A q \in Range(Queue) :
                  heap[q].acted = 0 /\ heap[q].ticks = 0
            /\ last.completed \subseteq Range(last.ran)
            /\ last.completed \subseteq freed \ DOMAIN heap
            /\ {a \in DOMAIN last.deleted : a <= MaxActions}
                  = last.completed
                      \cup (IF last.interrupter # NULL
                            THEN Range(last.active) ELSE {})
            /\ Active = SelectSeq(last.ran, NotCompleted)

\* An execute() has returned in which the active action, in its third
\* tick, completed and was deleted, while the queue kept its two actions.
C29_Witness ==
    /\ Returned
    /\ last.ran = last.active
    /\ \E a \in last.completed :
          /\ last.deleted[a].acted = 3
          /\ last.ran = <<a>>
    /\ Active = <<>>
    /\ Len(Queue) = 2
    /\ Queue = last.actionQueue


\* The actions reachable from the pointer a: the list it heads and, for
\* the compounds in it, their sub-actions.
RECURSIVE Reach(_, _)
Reach(h, a) ==
    LET l == Range(List(h, a)) \cap DOMAIN h
    IN l \cup UNION {Reach(h, h[x].subActions) :
                        x \in {y \in l : h[y].kind \in ActionCompound}}

\* C30 as claimed: no sub-action outlives its owner: when the manager has
\* deleted a completed compound (or a sequence its completed head), the
\* sub-actions it owned are deleted with it, so every live action is
\* reachable from actionQueue or from active.
C30_NoOrphans ==
    pc = "idle" =>
        DOMAIN heap = Reach(heap, actionQueue) \cup Reach(heap, active)


\* The single obstacle of the constraint, the vector from the character to
\* its centre, the vector from the character to the goal position, and the
\* square of radius + avoidMargin.
OnlySphere == avoid.this.obstacles[1]
ToCentre == VectorMinus(OnlySphere.position, avoid.character.position)
Heading == VectorMinus(avoid.path.goal.position, avoid.character.position)
SquareReach ==
    (OnlySphere.radius + avoid.this.avoidMargin)
        * (OnlySphere.radius + avoid.this.avoidMargin)

\* Zero exactly when a and b are parallel; its square over b's square
\* magnitude is the square of the distance of a from the line along b.
Cross(a, b) == a[1] * b[2] - a[2] * b[1]

\* The centre of the single sphere is on the line from the character to the
\* goal position, ahead of the character.
CentreAhead ==
    /\ avoid.path.goal.positionSet
    /\ Cross(ToCentre, Heading) = 0
    /\ scalarProduct(ToCentre, Heading) > 0

\* C24: willViolate on a single sphere whose centre is on the line from the
\* character to the goal position and ahead of the character returns the
\* distance from the character to the point of closest approach (the centre);
\* it returns REAL_MAX when the line stays radius + avoidMargin or more away
\* from the centre, when the closest approach is behind the character, and
\* when the goal has no position channel.
C24_SingleSphere ==
    (avoid.op = "willViolate" /\ Len(avoid.this.obstacles) = 1) =>
        /\ CentreAhead =>
              /\ avoid.result.num > 0
              /\ avoid.result.num * avoid.result.num
                     = squareMagnitude(ToCentre) * avoid.result.sq
              /\ avoid.result # RealMax
        /\ Cross(ToCentre, Heading) * Cross(ToCentre, Heading)
               >= SquareReach * squareMagnitude(Heading)
              => avoid.result = RealMax
        /\ scalarProduct(ToCentre, Heading) < 0 => avoid.result = RealMax
        /\ ~avoid.path.goal.positionSet => avoid.result = RealMax

\* C24 witness: a call with a one-step lookahead returned the distance to a
\* sphere centred on a diagonal line ahead of the character.
C24_Witness ==
    /\ avoid.op = "willViolate"
    /\ Len(avoid.this.obstacles) = 1
    /\ CentreAhead
    /\ Heading[1] # 0
    /\ Heading[2] # 0
    /\ avoid.maxPriority = Real(1, 1)
    /\ avoid.result # RealMax


\* The smaller of two numbers.
Min(x, y) == IF x <= y THEN x ELSE y

\* C31: a combination keeps the sub-action list it was built with; each of
\* its act() calls runs act() on exactly the sub-actions that are not
\* complete at that moment, in list order (so a sub-action that needs n
\* calls has received the smaller of n and the number of act() calls of the
\* combination); and the combination is complete exactly when all its
\* sub-actions are, an empty one at once.
C31_Combination ==
    \A known \in {Known} :
        \A c \in Range(Queue) \cup Range(Active) \cup last.completed :
            known[c].kind = "comb" =>
                LET subs == SubActionsOf(c, 1, known[c].total)
                    ActsNow(s) == known[c].acted <= heap[s].total
                    Done == \A s \in Range(subs) : isComplete(heap, s)
                IN  /\ List(heap, known[c].subActions) = subs
                    /\ \A s \in Range(subs) :
                          /\ s \in DOMAIN heap
                          /\ heap[s].acted
                                = Min(heap[s].total, known[c].acted)
                    /\ c \in DOMAIN heap => isComplete(heap, c) = Done
                    /\ (Returned /\ c \in Range(last.ran)) =>
                          /\ last.acts = SelectSeq(subs, ActsNow)
                          /\ (c \in last.completed) = Done

\* C31 witness: an execute() has returned in which a combination of two
\* sub-actions skipped the first, which was complete, ran the second and
\* was complete after it.
C31_Witness ==
    /\ Returned
    /\ \E c \in last.completed :
          /\ last.deleted[c].kind = "comb"
          /\ last.deleted[c].total = 2
          /\ last.deleted[c].acted = 2
          /\ last.acts = <<SubId(c, 2)>>


\* The sub-actions of the action the last question was asked of.
Asked == List(heap, heap[query.this].subActions)

\* The last question has the answer the sub-actions give.
Answered ==
    /\ (query.op = "canDoBoth" /\ heap[query.this].kind \in ActionCompound)
          => query.result
                = \A s \in Range(Asked) : canDoBoth(heap, s, query.other)
    /\ (query.op = "canInterrupt" /\ heap[query.this].kind = "comb")
          => query.result = \E s \in Range(Asked) : canInterrupt(heap, s)
    /\ (query.op = "canInterrupt" /\ heap[query.this].kind = "seq")
          => query.result
                = IF Asked = <<>> THEN FALSE
                  ELSE canInterrupt(heap, Head(Asked))

QueryStep == query' # query => Answered'

\* C32: a compound answers canDoBoth(other) true exactly when all its
\* sub-actions do (an empty one answers true); a combination answers
\* canInterrupt() true exactly when one of its sub-actions does; a sequence
\* gives the answer of its head sub-action, and false when it is empty.
C32_CompoundAnswers == [][QueryStep]_vars

\* C32 witness: a scheduled combination of two sub-actions has answered
\* that it can interrupt, although its first sub-action cannot.
C32_Witness ==
    /\ last.op = "schedule"
    /\ query.op = "canInterrupt"
    /\ query.this \in DOMAIN heap
    /\ heap[query.this].kind = "comb"
    /\ heap[query.this].total = 2
    /\ ~canInterrupt(heap, heap[query.this].subActions)
    /\ query.result


\* C33: a getSteering call calls decomposeGoal once on every decomposer, in
\* list order, the first with the goal merged from the targeters and each
\* later one with the goal the one before returned; the goal of the first
\* path is the last result; and no decomposer is called again in the
\* iterations of the negotiation.
C33_DecomposersOnce ==
    call.op = "getSteering" =>
        /\ Len(call.decomposeGoal) = Len(decomposers)
        /\ \A di \in DOMAIN call.decomposeGoal :
              /\ call.decomposeGoal[di].decomposer = di
              /\ call.decomposeGoal[di].goal
                    = IF di = 1 THEN call.goal
                      ELSE call.decomposeGoal[di - 1].result
              /\ call.decomposeGoal[di].result
                    = decomposeGoal(decomposers[di],
                                    call.decomposeGoal[di].goal)
        /\ call.decomposed
              = IF decomposers = <<>> THEN call.goal
                ELSE call.decomposeGoal[Len(decomposers)].result
        /\ call.pathGoals # <<>> => call.pathGoals[1] = call.decomposed

\* C33 witness: a call with a targeter, the decomposers aim and turn in
\* this order, and a second iteration after a suggestion has converged.
C33_Witness ==
    /\ call.op = "getSteering"
    /\ call.exit = "converged"
    /\ Len(call.iterations) = 2
    /\ Len(targeters) >= 1
    /\ Len(decomposers) = 2
    /\ decomposers[1].kind = "aim"
    /\ decomposers[2].kind = "turn"
    /\ call.decomposed.orientationSet
    /\ call.decomposed.orientation = call.decomposed.position


\* Both lists of the manager are empty and every action that was scheduled
\* has been deleted: it completed or an interruption destroyed it.
Drained ==
    /\ pc = "idle"
    /\ actionQueue = NULL
    /\ active = NULL
    /\ \A a \in 1 .. scheduled : a \in freed /\ a \notin DOMAIN heap

\* C34: with actions that are incompatible with each other and complete
\* after finitely many act() calls, repeated execute() calls empty both
\* lists after the last scheduleAction, every scheduled action having
\* completed or been destroyed by an interruption.
C34_Drains == []<>Drained

\* C34 witness: the lists are empty after an execute() in which the last
\* of MaxActions scheduled actions completed.
C34_Witness ==
    /\ Drained
    /\ scheduled = MaxActions
    /\ Returned
    /\ last.completed # {}


\* The contents a caller's SteeringOutput has before a call: the one its
\* default constructor writes, and another one.
Outputs == {NoOutput, [by |-> "caller", goal |-> Goal(0, 0)]}

\* C35: when the iterations run out and there is no fallback, the output of
\* getSteering does not depend on what the caller's output object held
\* before: in every state of the pipe, two calls that differ in that
\* content alone leave the same output.
C35_OutputIndependent ==
    pc = "idle" =>
        \A before \in Outputs, other \in Outputs, value \in IndeterminateReals :
            \A p \in {getSteering([Pipe EXCEPT !.output = before],
                                  value, value)},
               q \in {getSteering([Pipe EXCEPT !.output = other],
                                  value, value)} :
                (p.call.exit = "exhausted" /\ p.fallback = NULL)
                    => p.output = q.output


\* C36: in a getSteering call every iteration computes one path; the path
\* of the iteration after a used suggestion is to the goal the suggesting
\* constraint's suggest() returns, whole; and when the call converges the
\* pipe's path is to the goal of the last getPath, which is the goal the
\* actuator's output was computed for.
C36_SuggestionReplaces ==
    (call.op = "getSteering" /\ call.exit # "crashed") =>
        /\ Len(call.pathGoals) = Len(call.iterations)
        /\ \A k \in DOMAIN call.iterations :
              (call.iterations[k].used # 0 /\ k < Len(call.pathGoals)) =>
                  call.pathGoals[k + 1]
                      = suggest(constraints[call.iterations[k].used])
        /\ call.exit = "converged" =>
              /\ path \in DOMAIN paths
              /\ paths[path].goal = call.pathGoals[Len(call.pathGoals)]
              /\ output = [by |-> "actuator", goal |-> paths[path].goal]

\* C36 witness: a call has converged in its second iteration, on the path
\* to a suggestion that left out the orientation the decomposed goal had.
C36_Witness ==
    /\ call.op = "getSteering"
    /\ call.exit = "converged"
    /\ Len(call.iterations) = 2
    /\ call.iterations[1].used # 0
    /\ call.decomposed.orientationSet
    /\ ~output.goal.orientationSet
    /\ output.goal.positionSet


\* What the check of the i-th obstacle alone gives for the path of the last
\* call, with no lookahead limit: the violation and the constraint with the
\* avoidance point of that obstacle.
Alone(i) ==
    AvoidSpheresConstraintWillViolateSphere(
        avoid.this, avoid.character, avoid.path, RealMax,
        avoid.this.obstacles[i])

\* C37: willViolate returns the smallest of the violations of its obstacles
\* (REAL_MAX when none is violated), and when that is below REAL_MAX the
\* following suggest() returns the avoidance point of an obstacle with that
\* violation, not the point the constraint held before the call.
C37_MinimumSuggests ==
    avoid.op = "suggest" =>
        /\ \A i \in DOMAIN avoid.this.obstacles :
              ~RealLess(Alone(i).result, avoid.result)
        /\ \/ avoid.result = RealMax
           \/ \E i \in DOMAIN avoid.this.obstacles :
                 Alone(i).result = avoid.result
        /\ avoid.result # RealMax =>
              \E i \in DOMAIN avoid.this.obstacles :
                  /\ Alone(i).result = avoid.result
                  /\ avoid.suggested = Alone(i).this.suggestion

\* C37 witness: suggest() has returned the point of the first of two
\* obstacles, the nearer one, from a constraint that held a point of an
\* earlier call; the second obstacle is violated as well and lies
\* elsewhere.
C37_Witness ==
    /\ avoid.op = "suggest"
    /\ Len(avoid.this.obstacles) = 2
    /\ RealLess(Alone(1).result, Alone(2).result)
    /\ Alone(2).result # RealMax
    /\ Alone(1).this.suggestion # Alone(2).this.suggestion
    /\ avoid.suggested = Alone(1).this.suggestion
    /\ avoid.this.suggestion # LeftOver


\* The transitions of the state the last update() started in that its input
\* triggers.
Triggered ==
    {t \in DOMAIN sm.states[sm.was].transitions :
        sm.states[sm.was].transitions[t].watch = sm.option}

\* The first of them in list order.
FirstTriggered == CHOOSE t \in Triggered : \A u \in Triggered : t <= u

\* C38: after update(), a call that started with no current state has made
\* initialState the current state, tested no transition and returned the
\* entry actions of that state; a later call with a triggered transition has
\* fired the first one triggered in list order and made its target the
\* current state; a later call with none has left the current state alone
\* and returned the state's actions; so the current state is the one
\* before, initialState or the target of the transition fired.
C38_Update ==
    sm.op \in {"update", "crashed"} =>
        /\ sm.was = NULL =>
              /\ sm.op = "update"
              /\ sm.currentState = sm.initialState
              /\ sm.fired = 0
              /\ sm.initialState # NULL =>
                    sm.actions = getEntryActions(sm, sm.initialState)
        /\ (sm.was # NULL /\ Triggered # {}) =>
              /\ sm.op = "update"
              /\ sm.fired = FirstTriggered
              /\ sm.currentState =
                     sm.states[sm.was].transitions[FirstTriggered].target
        /\ (sm.was # NULL /\ Triggered = {}) =>
              /\ sm.op = "update"
              /\ sm.fired = 0
              /\ sm.currentState = sm.was
              /\ sm.actions = StateGetActions(sm, sm.was)
        /\ \/ sm.currentState \in {NULL, sm.initialState, sm.was}
           \/ /\ sm.fired # 0
              /\ sm.currentState =
                     sm.states[sm.was].transitions[sm.fired].target

\* C39: an update() that found a triggered transition while the exit
\* actions of the current state or the actions of the transition are the
\* empty list returns, has made the target the current state and has
\* returned the exit actions, the transition's actions and the target's
\* actions in that order.
C39_EmptyLists ==
    (/\ sm.op \in {"update", "crashed"}
     /\ sm.was # NULL
     /\ sm.fired # 0
     /\ \/ getExitActions(sm, sm.was) = <<>>
        \/ TransitionGetActions(sm, sm.was, sm.fired) = <<>>) =>
        /\ sm.op = "update"
        /\ sm.currentState = getTargetState(sm, sm.was, sm.fired)
        /\ sm.actions =
               getExitActions(sm, sm.was)
                   \o TransitionGetActions(sm, sm.was, sm.fired)
                   \o StateGetActions(sm, sm.currentState)

=============================================================================
